---- MODULE Spec2Model ----
(***************************************************************************)
(* State-machine model of the gracht server core (src/server.c).           *)
(*                                                                         *)
(* The server is the process-wide singleton g_grachtServer.  One thread    *)
(* runs the event loop (position pc); in multi-threaded mode the worker    *)
(* pool's threads (position wpc) pop dispatched messages and invoke the    *)
(* protocol actions.  The link, the readiness facility, the hash table,    *)
(* the arena and the worker pool are services whose calls are recorded in  *)
(* `trace` (the calls made by the last step) and whose results are inputs. *)
(* A step is one handler, or the part of one between two points where     *)
(* another thread can run; a call of a service is taken as a whole.        *)
(*                                                                         *)
(* Spec is the server in both modes.  LifecycleSpec is initialize with     *)
(* its failures, OrderSpec the multi-threaded receive path with a larger   *)
(* arena, ReservedIdSpec the use of 0xFF as an application protocol id.    *)
(***************************************************************************)
EXTENDS Integers, Sequences, FiniteSets, TLC

(***************************************************************************)
(* Bounds of the model.                                                    *)
(***************************************************************************)
\* number of distinct stream connections the link can hand out by accept
MaxStreamClients == 1
\* number of messages the peers send during one run
MaxRecv == 2
\* number of receive blocks the arena can hold at once
ArenaBlocks == 1
\* the same where the order of dispatched messages is examined: room for a
\* second message while the first one waits in the queue
OrderArenaBlocks == 2

(***************************************************************************)
(* Values.                                                                 *)
(***************************************************************************)
\* GRACHT_CONN_INVALID, the value of listen_handle and dgram_handle before
\* create_links and after an unsupported listen
CONN_INVALID == -1
\* the "all protocols" value of the control protocol's subscribe/unsubscribe
ALL_PROTOCOLS == 255
\* words in the subscription bitmap, and bits per word
SUB_WORDS == 8
SUB_BITS == 32
\* GRACHT_MESSAGE_HEADER_SIZE in 32-bit words: id, length, protocol|action|params
HEADER_WORDS == 3

\* connection handles: accepted stream clients, the two listening endpoints
\* and the handle the link reports for a datagram peer
StreamConns == 1..MaxStreamClients
ListenConn == MaxStreamClients + 1
DgramConn == MaxStreamClients + 2
PeerConn == MaxStreamClients + 3
Conns == StreamConns \cup {PeerConn}

\* threads: the workers of the pool (server_workers = 2) and the event loop
Workers == {1, 2}
LoopThread == 0
NoThread == -1

\* the built-in control protocol's id
ControlProtocol == 0
\* protocol ids the peers subscribe to and the application broadcasts on: one
\* in word 0 of the subscription bitmap, one in word 1, and 0xFF
ProtocolIds == {3, 32, ALL_PROTOCOLS}
\* the protocol ids the application registers an action table for
AppProtocols == {3}
\* the id of the first message the peers send (each next one is one higher)
\* and the first word of a datagram peer's address
FirstMessageId == 7
AddressWord == 5
\* cursor positions of a packed response (bytes written to the out buffer)
Cursors == {12, 28}
\* what a pointer-returning allocation yields when it fails
NullBlock == -1
\* the max_message_size the application configures, and the bytes that
\* configure_server adds to it for the context data of a message
MaxMessageSize == 512
CONTEXT_SIZE == 512
\* the static receive buffer of single-threaded mode, as a block
StaticBlock == 0

VARIABLES
    server,      \* the scalar fields of g_grachtServer
    protocols,   \* g_grachtServer.protocols: protocol id -> set of action names
    clients,     \* g_grachtServer.clients: handle -> client record
    aio,         \* the handles registered with the readiness facility
    mutex,       \* holder of g_grachtServer.sync_object, or NoThread
    arena,       \* the arena's blocks that are allocated
    queue,       \* the worker pool's queue of dispatched messages
    wpc,         \* position of each worker thread
    wmsg,        \* the message a worker has popped
    pc,          \* position of the event-loop thread
    entry,       \* the drain loop's local `entry`: handle and staleness
    received,    \* number of messages received so far (bounded by MaxRecv)
    lastOp,      \* the operation the last step ran, with its inputs
    trace,       \* the calls to services and callbacks made by the last step
    accepted,    \* stream handles accepted and not yet reported disconnected
    wanted,      \* per handle, the protocol ids its record was subscribed to
    link         \* a client's socket link, its socket and its last operation

vars == <<server, protocols, clients, aio, mutex, arena, queue, wpc, wmsg, pc,
          entry, received, lastOp, trace, accepted, wanted, link>>

\* the blocks of the arena that gracht_arena_create has made
Blocks == 1..server.arenaBlocks

(***************************************************************************)
(* Records.                                                                *)
(***************************************************************************)
\* one call to a service of the link, the readiness facility or a callback,
\* and whether it succeeded
Call(name, conn) ==
    [call |-> name, conn |-> conn, id |-> 0, length |-> 0, protocol |-> 0, index |-> 0,
     action |-> "none", code |-> "none", status |-> "ok"]
\* one that passes a message: the header fields id, length and protocol the
\* callee finds in it, and the cursor (index) of the buffer it is given
Send(name, conn, msg) ==
    [call |-> name, conn |-> conn, id |-> msg.id, length |-> msg.length,
     protocol |-> msg.protocol, index |-> msg.index, action |-> "none", code |-> "none",
     status |-> "ok"]

\* what the last step ran: operation, handle it was about, its result, and for
\* an invoked message the id and the protocol parsed from its header
Op(name, conn, result) ==
    [op |-> name, conn |-> conn, result |-> result, id |-> 0, protocol |-> 0, index |-> 0]
OpMsg(name, conn, result, id, protocol) ==
    [op |-> name, conn |-> conn, result |-> result, id |-> id, protocol |-> protocol,
     index |-> 0]

EmptyTable == [k \in {} |-> {}]
NoSubscriptions == [w \in 0..(SUB_WORDS - 1) |-> {}]
AllSubscriptions == [w \in 0..(SUB_WORDS - 1) |-> 0..(SUB_BITS - 1)]

\* struct gracht_server_client as the link creates it: handle and a zeroed
\* subscription bitmap; a word of the bitmap is the set of its bits that are 1
NewClient(conn) == [handle |-> conn, subscriptions |-> NoSubscriptions]

\* the payload of a received message in 32-bit words: `prefix` is what the
\* link stores in front of the header (the peer address of a datagram)
Payload(prefix, id, protocol, action, arg) ==
    prefix \o <<id, (HEADER_WORDS + 1) * 4, <<protocol, action>>, arg>>

\* struct gracht_recv_message: originating handle, parse index, payload and
\* the receive block that holds it (0 is the static receive buffer)
RecvMessage(conn, prefix, id, protocol, action, arg, block) ==
    [client |-> conn, index |-> Len(prefix),
     payload |-> Payload(prefix, id, protocol, action, arg), block |-> block]

\* the event loop's local `entry` outside the handlers that have one
NoEntry == [handle |-> CONN_INVALID, stale |-> FALSE]

NoMessage == [client |-> CONN_INVALID, index |-> 0, payload |-> <<>>, block |-> 0]

\* a client's socket link (struct socket_link_manager) and its socket: the
\* link type of its configuration, the bytes in flight on its stream as the
\* sequence of transmissions (header fields and bytes sent) with the number
\* of bytes of the first one already read, and what the last operation on
\* it did: status, errno, whether *messageOut was set, the header of the
\* message sent or received, the requests made of the socket, the bytes moved
NoHeader == [length |-> 0, param_in |-> 0, param_out |-> 0]
NoLink ==
    [type |-> "none", stream |-> <<>>, offset |-> 0, op |-> "none", status |-> "none",
     errno |-> "none", delivered |-> FALSE, out |-> NoHeader, reads |-> <<>>, moved |-> 0]

\* the requests the peers send: the control protocol's subscribe and
\* unsubscribe, a call of the application protocol's action, and a call of
\* an action nobody registered
Requests ==
    {<<ControlProtocol, a, p>> : a \in {"subscribe", "unsubscribe"}, p \in ProtocolIds}
    \cup {<<p, "call", 0>> : p \in ProtocolIds \ {ALL_PROTOCOLS}}

\* gracht_server_configuration_t values the application passes to initialize:
\* both callbacks installed or neither, the readiness handle left to the
\* server, one worker (single-threaded) or two (multi-threaded);
\* arena_blocks is the number of blocks the arena of arenaSize bytes holds
Configurations ==
    [callbacks : {[clientConnected |-> b, clientDisconnected |-> b] : b \in BOOLEAN},
     set_descriptor_provided : {FALSE},
     max_message_size : {MaxMessageSize},
     arena_blocks : {ArenaBlocks},
     server_workers : {1, 2}]

(***************************************************************************)
(* The static initializer of g_grachtServer.                               *)
(***************************************************************************)
StaticServer ==
    [ops |-> "NULL", link |-> "NULL",
     callbacks |-> [clientConnected |-> FALSE, clientDisconnected |-> FALSE],
     arena |-> "NULL", arenaBlocks |-> 0, worker_pool |-> "NULL", allocationSize |-> 0,
     sendBuffer |-> "NULL", recvBuffer |-> "NULL",
     initialized |-> 0,
     set_handle |-> "INVALID", set_handle_provided |-> 0,
     listen_handle |-> CONN_INVALID, dgram_handle |-> CONN_INVALID,
     tables |-> "none"]

Init ==
    /\ server = StaticServer
    /\ protocols = EmptyTable
    /\ clients = EmptyTable
    /\ aio = {}
    /\ mutex = NoThread
    /\ arena = {}
    /\ queue = <<>>
    /\ wpc = [w \in Workers |-> "idle"]
    /\ wmsg = [w \in Workers |-> NoMessage]
    /\ pc = "out"
    /\ entry = NoEntry
    /\ received = 0
    /\ lastOp = Op("none", CONN_INVALID, "none")
    /\ trace = <<>>
    /\ accepted = {}
    /\ wanted = [c \in Conns |-> {}]
    /\ link = NoLink

(***************************************************************************)
(* gracht_server_initialize and its helpers.                               *)
(***************************************************************************)
\* configure_server: the fields it has assigned when it returns, its status,
\* and whether it created a readiness handle of its own; `fail` names the
\* allocation that fails, if one does
configure_server(s, cfg, fail) ==
    LET aioOk == fail # "aio"
        poolOk == fail # "pool"
        arenaOk == fail # "arena"
        sendOk == fail # "send"
        recvOk == fail # "recv"
        s1 == [s EXCEPT !.link = "live", !.callbacks = cfg.callbacks]
        s0 == IF cfg.set_descriptor_provided
              THEN [s1 EXCEPT !.set_handle = "provided", !.set_handle_provided = 1]
              ELSE [s1 EXCEPT !.set_handle = IF aioOk THEN "created" ELSE "INVALID"]
        s2 == [s0 EXCEPT !.allocationSize = cfg.max_message_size + CONTEXT_SIZE]
        created == ~cfg.set_descriptor_provided /\ aioOk
        mt == cfg.server_workers > 1
        s3 == IF mt THEN [s2 EXCEPT !.worker_pool = "live", !.ops = "mt"]
                    ELSE [s2 EXCEPT !.ops = "st"]
        s4 == IF mt THEN [s3 EXCEPT !.arena = "live", !.arenaBlocks = cfg.arena_blocks]
                    ELSE [s3 EXCEPT !.sendBuffer = IF sendOk THEN "live" ELSE "NULL"]
        s5 == [s4 EXCEPT !.recvBuffer = IF recvOk THEN "live" ELSE "NULL"]
    IN  IF ~cfg.set_descriptor_provided /\ ~aioOk
        THEN [server |-> s0, status |-> 0 - 1, created |-> FALSE]
        ELSE IF mt /\ ~poolOk
        THEN [server |-> s2, status |-> 0 - 1, created |-> created]
        ELSE IF mt /\ ~arenaOk
        THEN [server |-> s3, status |-> 0 - 1, created |-> created]
        ELSE IF mt
        THEN [server |-> s4, status |-> 0, created |-> created]
        ELSE IF ~sendOk
        THEN [server |-> s4, status |-> 0 - 1, created |-> created]
        ELSE IF ~recvOk
        THEN [server |-> s5, status |-> 0 - 1, created |-> created]
        ELSE [server |-> s5, status |-> 0, created |-> created]

\* link->listen of one kind: the handle it returns on success, and the errno
\* it leaves otherwise, in `code`
listen(conn, result) ==
    [Call("listen", conn) EXCEPT !.code = IF result = "ok" THEN "none" ELSE result,
                                 !.status = IF result = "ok" THEN "ok" ELSE "failed"]

\* create_links that takes ENOTSUP for a failure like any other
create_links_Strict(s, stream, dgram) ==
    LET s1 == [s EXCEPT !.listen_handle = IF stream = "ok" THEN ListenConn ELSE CONN_INVALID]
        a1 == IF stream = "ok" THEN {ListenConn} ELSE {}
        c1 == <<listen(ListenConn, stream)>>
              \o (IF stream = "ok" THEN <<Call("aio_add", ListenConn)>> ELSE <<>>)
        s2 == [s1 EXCEPT !.dgram_handle = IF dgram = "ok" THEN DgramConn ELSE CONN_INVALID]
        a2 == IF dgram = "ok" THEN a1 \cup {DgramConn} ELSE a1
        c2 == c1 \o <<listen(DgramConn, dgram)>>
              \o (IF dgram = "ok" THEN <<Call("aio_add", DgramConn)>> ELSE <<>>)
    IN  IF stream # "ok"
        THEN [server |-> s1, status |-> 0 - 1, added |-> a1, calls |-> c1]
        ELSE IF dgram # "ok"
        THEN [server |-> s2, status |-> 0 - 1, added |-> a2, calls |-> c2]
        ELSE [server |-> s2, status |-> 0, added |-> a2, calls |-> c2]

\* create_links: `stream` and `dgram` are what the link's listen does for the
\* two kinds: "ok", "ENOTSUP" or "error"; `added` are the handles it has
\* added to the readiness set, `calls` the calls it made
create_links(s, stream, dgram) ==
    LET s1 == [s EXCEPT !.listen_handle = IF stream = "ok" THEN ListenConn ELSE CONN_INVALID]
        a1 == IF stream = "ok" THEN {ListenConn} ELSE {}
        c1 == <<listen(ListenConn, stream)>>
              \o (IF stream = "ok" THEN <<Call("aio_add", ListenConn)>> ELSE <<>>)
        s2 == [s1 EXCEPT !.dgram_handle = IF dgram = "ok" THEN DgramConn ELSE CONN_INVALID]
        a2 == IF dgram = "ok" THEN a1 \cup {DgramConn} ELSE a1
        c2 == c1 \o <<listen(DgramConn, dgram)>>
              \o (IF dgram = "ok" THEN <<Call("aio_add", DgramConn)>> ELSE <<>>)
    IN  IF stream = "error"
        THEN [server |-> s1, status |-> 0 - 1, added |-> a1, calls |-> c1]
        ELSE IF dgram = "error"
        THEN [server |-> s2, status |-> 0 - 1, added |-> a2, calls |-> c2]
        ELSE IF s2.listen_handle = CONN_INVALID /\ s2.dgram_handle = CONN_INVALID
        THEN [server |-> s2, status |-> 0 - 1, added |-> a2, calls |-> c2]
        ELSE [server |-> s2, status |-> 0, added |-> a2, calls |-> c2]

\* gracht_server_register_protocol: hashtable_set on the protocol registry
register_protocol(table, id, actions) ==
    [p \in DOMAIN table \cup {id} |-> IF p = id THEN actions ELSE table[p]]

\* the worker pool has no thread inside a message and nothing queued
Quiescent == queue = <<>> /\ \A w \in Workers : wpc[w] = "idle"

InitializeAlready ==
    /\ pc \in {"out", "wait"}
    /\ server.initialized = 1
    /\ lastOp' = Op("initialize", CONN_INVALID, "EALREADY")
    /\ trace' = <<>>
    /\ UNCHANGED <<server, protocols, clients, aio, mutex, arena, queue, wpc, wmsg,
                   pc, entry, received, accepted, wanted>>
    /\ UNCHANGED link

InitializeNull ==
    /\ pc = "out"
    /\ server.initialized = 0
    /\ lastOp' = Op("initialize", CONN_INVALID, "EINVAL")
    /\ trace' = <<>>
    /\ UNCHANGED <<server, protocols, clients, aio, mutex, arena, queue, wpc, wmsg,
                   pc, entry, received, accepted, wanted>>
    /\ UNCHANGED link

Initialize(cfg, fail, stream, dgram) ==
    /\ pc = "out"
    /\ server.initialized = 0
    /\ Quiescent
    /\ LET conf == configure_server(server, cfg, fail)
           links == create_links(conf.server, stream, dgram)
           aio1 == IF conf.created THEN {} ELSE aio
       IN  IF conf.status # 0
           THEN /\ server' = conf.server
                /\ aio' = aio1
                /\ lastOp' = Op("initialize", CONN_INVALID, "configure_failed")
                /\ trace' = <<>>
                /\ UNCHANGED <<protocols, clients, arena, accepted, wanted>>
           ELSE IF links.status # 0
           THEN /\ server' = links.server
                /\ aio' = aio1 \cup links.added
                /\ lastOp' = Op("initialize", CONN_INVALID, "links_failed")
                /\ trace' = links.calls
                /\ UNCHANGED <<protocols, clients, arena, accepted, wanted>>
           ELSE /\ server' = [links.server EXCEPT !.tables = "live", !.initialized = 1]
                /\ aio' = aio1 \cup links.added
                /\ protocols' = register_protocol(EmptyTable, ControlProtocol,
                                                  {"subscribe", "unsubscribe"})
                /\ clients' = EmptyTable
                /\ arena' = {}
                /\ accepted' = {}
                /\ wanted' = [c \in Conns |-> {}]
                /\ lastOp' = Op("initialize", CONN_INVALID, "ok")
                /\ trace' = links.calls
    /\ UNCHANGED <<mutex, queue, wpc, wmsg, pc, entry, received>>
    /\ UNCHANGED link

(***************************************************************************)
(* Client records and the subscription bitmap.                             *)
(***************************************************************************)
\* hashtable_get / hashtable_set / hashtable_remove on the client registry
hashtable_has(table, conn) == conn \in DOMAIN table
hashtable_set(table, conn, client) ==
    [c \in DOMAIN table \cup {conn} |-> IF c = conn THEN client ELSE table[c]]
hashtable_remove(table, conn) ==
    [c \in DOMAIN table \ {conn} |-> table[c]]

\* (1 << offset) as the set of its bits that are 1.  The shift is made in
\* int; for offset 31 the compilers the code is built with give INT_MIN,
\* whose conversion to the 32-bit word has bit 31 alone
Mask(offset) == {offset}

client_subscribe(client, id) ==
    LET block == id \div SUB_BITS
        offset == id % SUB_BITS
    IN  IF id = ALL_PROTOCOLS
        THEN [client EXCEPT !.subscriptions = AllSubscriptions]
        ELSE [client EXCEPT !.subscriptions[block] = @ \cup Mask(offset)]

\* client_unsubscribe that clears the whole word of the protocol's bit
client_unsubscribe_ClearsWord(client, id) ==
    LET block == id \div SUB_BITS
    IN  IF id = ALL_PROTOCOLS
        THEN [client EXCEPT !.subscriptions = NoSubscriptions]
        ELSE [client EXCEPT !.subscriptions[block] = {}]

client_unsubscribe(client, id) ==
    LET block == id \div SUB_BITS
        offset == id % SUB_BITS
    IN  IF id = ALL_PROTOCOLS
        THEN [client EXCEPT !.subscriptions = NoSubscriptions]
        ELSE [client EXCEPT !.subscriptions[block] = @ \ Mask(offset)]

client_is_subscribed(client, id) ==
    LET block == id \div SUB_BITS
        offset == id % SUB_BITS
    IN  client.subscriptions[block] \cap Mask(offset) # {}

\* the protocol ids a subscribe(id) asks for
Asked(id) == IF id = ALL_PROTOCOLS THEN 0..ALL_PROTOCOLS ELSE {id}

(***************************************************************************)
(* The part of the state a handler works on.  The operators below take it  *)
(* and return it as the code leaves it; `calls` collects the calls made.   *)
(***************************************************************************)
World ==
    [clients |-> clients, aio |-> aio, calls |-> <<>>, accepted |-> accepted,
     wanted |-> wanted, stale |-> entry.stale, crashed |-> FALSE, errno |-> "none"]

\* the drain loop of handle_async_event holds the registry entry of `conn`
Draining(conn) == pc = "drain_client" /\ entry.handle = conn

\* client_destroy with the callback moved behind the link's destroy_client
client_destroy_CallbackLast(w, conn) ==
    LET fired == server.callbacks.clientDisconnected
        a1 == IF fired THEN w.accepted \ {conn} ELSE w.accepted
        c1 == IF hashtable_has(w.clients, conn)
              THEN Append(w.calls, Call("destroy_client", conn)) ELSE w.calls
    IN  [w EXCEPT !.calls = IF fired THEN Append(c1, Call("clientDisconnected", conn)) ELSE c1,
                  !.accepted = a1,
                  !.clients = hashtable_remove(w.clients, conn),
                  !.wanted[conn] = {},
                  !.stale = w.stale \/ (hashtable_has(w.clients, conn) /\ Draining(conn))]

\* client_destroy: clientDisconnected (when installed), hashtable_remove,
\* and the link's destroy_client when the handle had a record
client_destroy(w, conn) ==
    LET fired == server.callbacks.clientDisconnected
        c1 == IF fired THEN Append(w.calls, Call("clientDisconnected", conn)) ELSE w.calls
        a1 == IF fired THEN w.accepted \ {conn} ELSE w.accepted
    IN  IF ~hashtable_has(w.clients, conn)
        THEN [w EXCEPT !.calls = c1, !.accepted = a1]
        ELSE [w EXCEPT !.calls = Append(c1, Call("destroy_client", conn)),
                       !.accepted = a1,
                       !.clients = hashtable_remove(w.clients, conn),
                       !.wanted[conn] = {},
                       !.stale = w.stale \/ Draining(conn)]

\* gracht_control_subscribe_invocation.  With no record for the handle the
\* code creates and inserts one and then reads entry->client through the
\* null `entry`: the process faults (ub = "crash") or the store goes
\* through a wild pointer and reaches no client record (ub = "wild").
gracht_control_subscribe_invocation(w, message, protocol, createOk, ub) ==
    LET conn == message.client
    IN  IF hashtable_has(w.clients, conn)
        THEN [w EXCEPT !.clients[conn] = client_subscribe(@, protocol),
                       !.wanted[conn] = @ \cup Asked(protocol)]
        ELSE IF ~createOk
        THEN [w EXCEPT !.calls = Append(@, Call("create_client_failed", conn))]
        ELSE LET c1 == Append(w.calls, Call("create_client", conn))
                 c2 == IF server.callbacks.clientConnected
                       THEN Append(c1, Call("clientConnected", conn)) ELSE c1
             IN  [w EXCEPT !.calls = c2,
                           !.clients = hashtable_set(w.clients, conn, NewClient(conn)),
                           !.crashed = (ub = "crash")]

\* gracht_control_unsubscribe_invocation without the client_destroy of 0xFF
gracht_control_unsubscribe_invocation_KeepsRecord(w, message, protocol) ==
    LET conn == message.client
    IN  IF ~hashtable_has(w.clients, conn)
        THEN w
        ELSE [w EXCEPT !.clients[conn] = client_unsubscribe(@, protocol),
                       !.wanted[conn] = @ \ Asked(protocol)]

\* gracht_control_unsubscribe_invocation
gracht_control_unsubscribe_invocation(w, message, protocol) ==
    LET conn == message.client
    IN  IF ~hashtable_has(w.clients, conn)
        THEN w
        ELSE LET w1 == [w EXCEPT !.clients[conn] = client_unsubscribe(@, protocol),
                                 !.wanted[conn] = @ \ Asked(protocol)]
             IN  IF protocol = ALL_PROTOCOLS THEN client_destroy(w1, conn) ELSE w1

\* an outgoing message as gracht_server_get_buffer and the caller's packing
\* leave it: header fields not yet filled in, the cursor after the content
OutBuffer(protocol, cursor) ==
    [id |-> 0, length |-> 0, protocol |-> protocol, index |-> cursor]

\* a null struct gracht_recv_message* and a null gracht_buffer_t*
NullContext == [client |-> CONN_INVALID, index |-> 0, payload |-> <<>>, block |-> NullBlock]
NullBuffer == [id |-> 0, length |-> 0, protocol |-> 0, index |-> 0 - 1]

\* gracht_server_respond that always answers through the link's respond
gracht_server_respond_AlwaysLink(w, messageContext, message) ==
    LET m == [message EXCEPT !.id = messageContext.payload[1], !.length = message.index]
        conn == messageContext.client
    IN  IF messageContext = NullContext \/ message = NullBuffer
        THEN [w EXCEPT !.errno = "EINVAL"]
        ELSE [w EXCEPT !.calls = Append(@, Send("respond", conn, m))]

\* gracht_server_respond: EINVAL for a null context or message; otherwise id
\* from word 0 of the context's payload, length from the cursor, then
\* send_client for a registered handle and the link's respond otherwise
gracht_server_respond(w, messageContext, message) ==
    LET m == [message EXCEPT !.id = messageContext.payload[1], !.length = message.index]
        conn == messageContext.client
    IN  IF messageContext = NullContext \/ message = NullBuffer
        THEN [w EXCEPT !.errno = "EINVAL"]
        ELSE IF ~hashtable_has(w.clients, conn)
        THEN [w EXCEPT !.calls = Append(@, Send("respond", conn, m))]
        ELSE [w EXCEPT !.calls = Append(@, Send("send_client", conn, m))]

(***************************************************************************)
(* server_invoke_action.                                                   *)
(***************************************************************************)
\* what the environment decides while an action runs: whether the link's
\* create_client succeeds, what a fault does, where the response ends
Alternative(createOk, ub, cursor, sendOk) ==
    [createOk |-> createOk, ub |-> ub, cursor |-> cursor, sendOk |-> sendOk]
Faults == {"crash", "wild"}
DefaultAlt == Alternative(TRUE, "crash", 12, TRUE)
\* the alternatives that make a difference for a request from `conn`
Alternatives(conn, protocol, action) ==
    IF protocol = ControlProtocol /\ action = "subscribe" /\ conn \notin DOMAIN clients
    THEN {Alternative(FALSE, "crash", 12, TRUE)}
         \cup {Alternative(TRUE, ub, 12, TRUE) : ub \in Faults}
    ELSE IF protocol # ControlProtocol
    THEN {Alternative(TRUE, "crash", c, ok) : c \in Cursors, ok \in BOOLEAN}
    ELSE {DefaultAlt}

\* the header fields at the message's parse index (payload words are
\* numbered from 1 here, so byte offset index + 0 is word index + 1)
ParseHeader(message) ==
    [id |-> message.payload[message.index + 1],
     protocol |-> message.payload[message.index + 3][1],
     action |-> message.payload[message.index + 3][2],
     arg |-> message.payload[message.index + 4]]

\* get_protocol_action: the action of the protocol's table, or none
get_protocol_action(table, protocol, action) ==
    protocol \in DOMAIN table /\ action \in table[protocol]

\* no action found: gracht_control_event_error_single(client, id, ENOENT),
\* whose send succeeds or fails
InvokeMiss(w, message, alt) ==
    LET h == ParseHeader(message)
    IN  [w EXCEPT !.calls = Append(@,
            [Send("event_error", message.client,
                  [id |-> h.id, length |-> 0, protocol |-> ControlProtocol, index |-> 0])
             EXCEPT !.code = "ENOENT",
                    !.status = IF alt.sendOk THEN "ok" ELSE "failed"])]

\* server_invoke_action without `buffer.index += GRACHT_MESSAGE_HEADER_SIZE`
ActionCursor_NotAdvanced(message) == message.index

\* the cursor of the buffer the action is called with: the message's parse
\* index advanced past the header
ActionCursor(message) == message.index + HEADER_WORDS

\* the action found is called with the context and the buffer (recorded as
\* the call "invoke") and reads its parameter at the cursor: the control
\* protocol's two invocations, or the application's action, which packs a
\* response up to `alt.cursor` and calls gracht_server_respond, whose
\* result it does not look at (the link's send fails unless alt.sendOk)
InvokeHit(w, message, alt) ==
    LET h == ParseHeader(message)
        cursor == ActionCursor(message)
        arg == message.payload[cursor + 1]
        w1 == [w EXCEPT !.calls = Append(@,
                  [Call("invoke", message.client)
                   EXCEPT !.id = h.id, !.protocol = h.protocol, !.action = h.action,
                          !.index = cursor])]
    IN  IF h.protocol = ControlProtocol /\ h.action = "subscribe"
        THEN gracht_control_subscribe_invocation(w1, message, arg, alt.createOk, alt.ub)
        ELSE IF h.protocol = ControlProtocol /\ h.action = "unsubscribe"
        THEN gracht_control_unsubscribe_invocation(w1, message, arg)
        ELSE LET w2 == gracht_server_respond(w1, message, OutBuffer(h.protocol, alt.cursor))
             IN  IF alt.sendOk \/ w2.calls = w1.calls THEN w2
                 ELSE [w2 EXCEPT !.calls[Len(w2.calls)].status = "failed"]

server_invoke_action(w, message, alt) ==
    LET h == ParseHeader(message)
    IN  IF get_protocol_action(protocols, h.protocol, h.action)
        THEN InvokeHit(w, message, alt)
        ELSE InvokeMiss(w, message, alt)

InvokeOp(message) ==
    LET h == ParseHeader(message)
    IN  [OpMsg(IF h.protocol = ControlProtocol THEN h.action ELSE "call", message.client,
              IF get_protocol_action(protocols, h.protocol, h.action) THEN "hit" ELSE "miss",
              h.id, IF h.protocol = ControlProtocol THEN h.arg ELSE h.protocol)
         EXCEPT !.index = message.index]

\* the world a handler leaves becomes the next state; the thread of the
\* event loop goes on at `to` unless the process has faulted
Commit(w, before, to) ==
    /\ clients' = w.clients
    /\ aio' = w.aio
    /\ accepted' = w.accepted
    /\ wanted' = w.wanted
    /\ pc' = IF w.crashed THEN "crashed" ELSE to
    /\ entry' = IF ~w.crashed /\ to \in {"accept", "drain_client", "drain_dgram"}
                THEN [entry EXCEPT !.stale = w.stale] ELSE NoEntry
    /\ trace' = before \o w.calls

(***************************************************************************)
(* The event loop: gracht_server_main_loop, gracht_server_handle_event.    *)
(***************************************************************************)
MultiThreaded == server.ops = "mt"
Running == pc = "wait" /\ server.initialized = 1

\* gracht_server_shutdown: nothing when the server is not initialized
gracht_server_shutdown(s) ==
    IF s.initialized = 0
    THEN [server |-> s, status |-> "ENOTSUP", torn |-> FALSE]
    ELSE [server |->
            [s EXCEPT !.set_handle = IF @ # "INVALID" /\ s.set_handle_provided = 0
                                      THEN "destroyed" ELSE @,
                      !.worker_pool = IF @ # "NULL" THEN "destroyed" ELSE @,
                      !.tables = "destroyed",
                      !.arena = IF @ # "NULL" THEN "destroyed" ELSE @,
                      !.sendBuffer = IF @ # "NULL" THEN "destroyed" ELSE @,
                      !.recvBuffer = IF @ # "NULL" THEN "destroyed" ELSE @,
                      !.link = IF @ # "NULL" THEN "destroyed" ELSE @,
                      !.initialized = 0],
          status |-> "ok", torn |-> TRUE]

\* client_enum_destroy over the registry, in handle order
RECURSIVE EnumDestroy(_, _)
EnumDestroy(table, conns) ==
    IF conns = {} THEN <<>>
    ELSE LET c == CHOOSE x \in conns : \A y \in conns : x <= y
         IN  <<Call("destroy_client", table[c].handle)>> \o EnumDestroy(table, conns \ {c})

MainLoopEnter ==
    /\ pc = "out"
    /\ pc' = "wait"
    /\ lastOp' = Op("main_loop", CONN_INVALID, "entered")
    /\ trace' = <<>>
    /\ UNCHANGED <<server, protocols, clients, aio, mutex, arena, queue, wpc, wmsg,
                   entry, received, accepted, wanted>>
    /\ UNCHANGED link

\* the loop's test finds initialized cleared: main_loop returns shutdown()
MainLoopExit ==
    /\ pc = "wait"
    /\ server.initialized = 0
    /\ LET r == gracht_server_shutdown(server)
       IN  /\ server' = r.server
           /\ lastOp' = Op("main_loop", CONN_INVALID, r.status)
           /\ trace' = IF r.torn THEN EnumDestroy(clients, DOMAIN clients) ELSE <<>>
           /\ clients' = IF r.torn THEN EmptyTable ELSE clients
           /\ protocols' = IF r.torn THEN EmptyTable ELSE protocols
           /\ aio' = IF r.torn /\ r.server.set_handle = "destroyed" THEN {} ELSE aio
    /\ pc' = "out"
    /\ UNCHANGED <<mutex, arena, queue, wpc, wmsg, entry, received, accepted, wanted>>
    /\ UNCHANGED link

\* the application (a signal handler) clears g_grachtServer.initialized
ClearInitialized ==
    /\ pc # "crashed"
    /\ server.initialized = 1
    /\ server' = [server EXCEPT !.initialized = 0]
    /\ lastOp' = Op("clear_initialized", CONN_INVALID, "ok")
    /\ trace' = <<>>
    /\ UNCHANGED <<protocols, clients, aio, mutex, arena, queue, wpc, wmsg, pc,
                   entry, received, accepted, wanted>>
    /\ UNCHANGED link

(***************************************************************************)
(* handle_client_socket: an event on the stream listener.                  *)
(***************************************************************************)
\* the link's accept fails, or returns the client record of connection
\* `conn`; the event-loop thread is then in front of the registry insert
HandleListenEvent(ok, conn) ==
    /\ Running
    /\ server.listen_handle \in aio
    /\ trace' = <<Call("accept", server.listen_handle)>>
    /\ IF ok
       THEN /\ conn \in StreamConns
            /\ conn \notin DOMAIN clients
            /\ pc' = "accept"
            /\ entry' = [handle |-> conn, stale |-> FALSE]
            /\ lastOp' = Op("accept", conn, "accepted")
       ELSE /\ conn = CONN_INVALID
            /\ lastOp' = Op("accept", conn, "failed")
            /\ UNCHANGED <<pc, entry>>
    /\ UNCHANGED <<server, protocols, clients, aio, mutex, arena, queue, wpc, wmsg,
                   received, accepted, wanted>>
    /\ UNCHANGED link

\* handle_client_socket without the hashtable_set
handle_client_socket_NoInsert(w, conn) ==
    LET c1 == Append(w.calls, Call("aio_add", conn))
    IN  [w EXCEPT !.aio = @ \cup {conn},
                  !.accepted = @ \cup {conn},
                  !.calls = IF server.callbacks.clientConnected
                            THEN Append(c1, Call("clientConnected", conn)) ELSE c1]

\* hashtable_set, gracht_aio_add and clientConnected of handle_client_socket
handle_client_socket(w, conn) ==
    LET c1 == Append(w.calls, Call("aio_add", conn))
    IN  [w EXCEPT !.clients = hashtable_set(w.clients, conn, NewClient(conn)),
                  !.aio = @ \cup {conn},
                  !.accepted = @ \cup {conn},
                  !.wanted[conn] = {},
                  !.calls = IF server.callbacks.clientConnected
                            THEN Append(c1, Call("clientConnected", conn)) ELSE c1]

AcceptInsert ==
    /\ pc = "accept"
    /\ Commit(handle_client_socket(World, entry.handle), <<>>, "wait")
    /\ lastOp' = Op("accept", entry.handle, "ok")
    /\ UNCHANGED <<server, protocols, mutex, arena, queue, wpc, wmsg, received>>
    /\ UNCHANGED link

(***************************************************************************)
(* handle_async_event: an event on an accepted client's handle.            *)
(***************************************************************************)
EventMasks == SUBSET {"IN", "DISCONNECT"}
ClientHandles == aio \ {server.listen_handle, server.dgram_handle}

\* the DISCONNECT branch: gracht_aio_remove, then client_destroy
handle_disconnect(w, conn) ==
    client_destroy([w EXCEPT !.calls = Append(@, Call("aio_remove", conn)),
                             !.aio = @ \ {conn}], conn)

HandleDisconnectEvent(conn, events) ==
    /\ Running
    /\ conn \in ClientHandles
    /\ "DISCONNECT" \in events
    /\ Commit(handle_disconnect(World, conn), <<>>, pc)
    /\ lastOp' = Op("disconnect", conn,
                    IF hashtable_has(clients, conn) THEN "registered" ELSE "unknown")
    /\ UNCHANGED <<server, protocols, mutex, arena, queue, wpc, wmsg, received>>
    /\ UNCHANGED link

\* the IN branch up to the loop: entry = hashtable_get(handle)
HandleInEvent(conn, events) ==
    /\ Running
    /\ conn \in ClientHandles
    /\ "DISCONNECT" \notin events
    /\ IF hashtable_has(clients, conn)
       THEN /\ pc' = "drain_client"
            /\ entry' = [handle |-> conn, stale |-> FALSE]
            /\ lastOp' = Op("in_event", conn, "registered")
       ELSE /\ lastOp' = Op("in_event", conn, "unknown")
            /\ UNCHANGED <<pc, entry>>
    /\ trace' = <<>>
    /\ UNCHANGED <<server, protocols, clients, aio, mutex, arena, queue, wpc, wmsg,
                   received, accepted, wanted>>
    /\ UNCHANGED link

\* an event on the datagram socket: handle_sync_event is entered
HandleDgramEvent ==
    /\ Running
    /\ server.dgram_handle \in aio
    /\ pc' = "drain_dgram"
    /\ entry' = [handle |-> server.dgram_handle, stale |-> FALSE]
    /\ lastOp' = Op("dgram_event", server.dgram_handle, "ok")
    /\ trace' = <<>>
    /\ UNCHANGED <<server, protocols, clients, aio, mutex, arena, queue, wpc, wmsg,
                   received, accepted, wanted>>
    /\ UNCHANGED link

(***************************************************************************)
(* Receive buffers and dispatch.                                           *)
(***************************************************************************)
\* gracht_arena_allocate: a free block, or null when every block is taken
arena_allocate(a) ==
    IF Blocks \ a = {} THEN NullBlock
    ELSE CHOOSE b \in Blocks \ a : \A c \in Blocks \ a : b <= c

\* gracht_arena_free(arena, memory, size): size 0 or the size of the
\* allocation gives the block back; a smaller size trims the allocation and
\* the block stays allocated
arena_free(a, block, size) ==
    IF size = 0 \/ size = server.allocationSize THEN a \ {block} ELSE a

\* the arena after get_incoming_buffer has returned `block`
Allocated(a, block) ==
    IF MultiThreaded /\ block # NullBlock THEN a \cup {block} ELSE a

\* ops->get_incoming_buffer that returns the static receive buffer in both
\* modes
get_incoming_buffer_Static == StaticBlock

\* ops->get_incoming_buffer: get_in_buffer_st / get_in_buffer_mt
get_incoming_buffer == IF MultiThreaded THEN arena_allocate(arena) ELSE StaticBlock

\* ops->put_message: put_message_st does nothing, put_message_mt frees
put_message(a, block) ==
    IF MultiThreaded THEN arena_free(a, block, server.allocationSize) ELSE a

\* server_cleanup_message with the trim that dispatch_mt has commented out:
\* the free of the part of the block behind the message
server_cleanup_message_Trim(a, message) ==
    arena_free(a, message.block, server.allocationSize - message.payload[message.index + 2])

\* server_cleanup_message: gracht_arena_free(server->arena, recvMessage, 0)
server_cleanup_message(a, message) ==
    arena_free(a, message.block, 0)

\* ops->dispatch that hands the message to the worker pool in both modes
Dispatch_Queued(message, before, alt) ==
    /\ queue' = Append(queue, message)
    /\ arena' = Allocated(arena, message.block)
    /\ lastOp' = OpMsg("dispatch", message.client, "queued",
                       ParseHeader(message).id, ParseHeader(message).protocol)
    /\ trace' = before
    /\ UNCHANGED <<clients, aio, accepted, wanted, entry, pc>>

\* ops->dispatch: dispatch_st invokes the action on the spot, dispatch_mt
\* hands the message to the worker pool
Dispatch(message, before, alt) ==
    IF MultiThreaded
    THEN /\ queue' = Append(queue, message)
         /\ arena' = Allocated(arena, message.block)
         /\ lastOp' = OpMsg("dispatch", message.client, "queued",
                            ParseHeader(message).id, ParseHeader(message).protocol)
         /\ trace' = before
         /\ UNCHANGED <<clients, aio, accepted, wanted, entry, pc>>
    ELSE LET w == server_invoke_action(World, message, alt)
         IN  /\ Commit(w, before, pc)
             /\ lastOp' = InvokeOp(message)
             /\ UNCHANGED <<queue, arena>>

\* a receive the code makes with a freed client record or a null buffer:
\* the process faults, or the call fails and the loop is left through
\* put_message
BadReceive(call, conn, block, ub) ==
    /\ trace' = IF ub = "crash" THEN <<Call(call, conn)>>
                ELSE <<Call(call, conn), Call("put_message", block)>>
    /\ pc' = IF ub = "crash" THEN "crashed" ELSE "wait"
    /\ lastOp' = Op(call, conn, ub)
    /\ arena' = IF ub = "crash" THEN arena ELSE put_message(Allocated(arena, block), block)
    /\ entry' = NoEntry
    /\ UNCHANGED <<clients, aio, accepted, wanted, queue, received>>

\* a failed receive whose result makes main_loop return
FailedReceive_LeavesLoop(call, conn, block, errno) ==
    /\ trace' = <<Call(call, conn), Call("put_message", block)>>
    /\ pc' = "out"
    /\ lastOp' = Op(call, conn, errno)
    /\ arena' = put_message(Allocated(arena, block), block)
    /\ entry' = NoEntry
    /\ UNCHANGED <<clients, aio, accepted, wanted, queue, received>>

\* the receive fails: put_message and leave the loop
FailedReceive(call, conn, block, errno) ==
    /\ trace' = <<Call(call, conn), Call("put_message", block)>>
    /\ pc' = "wait"
    /\ lastOp' = Op(call, conn, errno)
    /\ arena' = put_message(Allocated(arena, block), block)
    /\ entry' = NoEntry
    /\ UNCHANGED <<clients, aio, accepted, wanted, queue, received>>

\* the id the sender gives its next message
NextMessageId == FirstMessageId + received

\* one iteration of the loop of handle_async_event whose receive succeeds
DrainClientStep(req, alt) ==
    /\ pc = "drain_client"
    /\ MultiThreaded => mutex = NoThread
    /\ ~entry.stale
    /\ get_incoming_buffer # NullBlock
    /\ received < MaxRecv
    /\ alt \in Alternatives(entry.handle, req[1], req[2])
    /\ received' = received + 1
    /\ Dispatch(RecvMessage(entry.handle, <<>>, NextMessageId, req[1], req[2], req[3],
                            get_incoming_buffer),
                <<Call("recv_client", entry.handle)>>, alt)
    /\ UNCHANGED <<server, protocols, mutex, wpc, wmsg>>
    /\ UNCHANGED link

\* one whose receive fails with `errno`
DrainClientFail(errno) ==
    /\ pc = "drain_client"
    /\ MultiThreaded => mutex = NoThread
    /\ ~entry.stale
    /\ get_incoming_buffer # NullBlock
    /\ FailedReceive("recv_client", entry.handle, get_incoming_buffer, errno)
    /\ UNCHANGED <<server, protocols, mutex, wpc, wmsg>>
    /\ UNCHANGED link

\* one that receives through a freed client record or into a null buffer
DrainClientBad(ub) ==
    /\ pc = "drain_client"
    /\ MultiThreaded => mutex = NoThread
    /\ entry.stale \/ get_incoming_buffer = NullBlock
    /\ BadReceive(IF entry.stale THEN "recv_client_freed" ELSE "recv_client_null",
                  entry.handle, get_incoming_buffer, ub)
    /\ UNCHANGED <<server, protocols, mutex, wpc, wmsg>>
    /\ UNCHANGED link

\* one iteration of the loop of handle_sync_event whose receive succeeds
DrainDgramStep(req, alt) ==
    /\ pc = "drain_dgram"
    /\ MultiThreaded => mutex = NoThread
    /\ get_incoming_buffer # NullBlock
    /\ received < MaxRecv
    /\ alt \in Alternatives(PeerConn, req[1], req[2])
    /\ received' = received + 1
    /\ Dispatch(RecvMessage(PeerConn, <<AddressWord>>, NextMessageId, req[1], req[2], req[3],
                            get_incoming_buffer),
                <<Call("recv_packet", entry.handle)>>, alt)
    /\ UNCHANGED <<server, protocols, mutex, wpc, wmsg>>
    /\ UNCHANGED link

DrainDgramFail(errno) ==
    /\ pc = "drain_dgram"
    /\ MultiThreaded => mutex = NoThread
    /\ get_incoming_buffer # NullBlock
    /\ FailedReceive("recv_packet", entry.handle, get_incoming_buffer, errno)
    /\ UNCHANGED <<server, protocols, mutex, wpc, wmsg>>
    /\ UNCHANGED link

DrainDgramBad(ub) ==
    /\ pc = "drain_dgram"
    /\ MultiThreaded => mutex = NoThread
    /\ get_incoming_buffer = NullBlock
    /\ BadReceive("recv_packet_null", entry.handle, get_incoming_buffer, ub)
    /\ UNCHANGED <<server, protocols, mutex, wpc, wmsg>>
    /\ UNCHANGED link

(***************************************************************************)
(* The worker pool's threads (multi-threaded mode).                        *)
(***************************************************************************)
\* a worker pops the next dispatched message and enters server_invoke_action
\* up to mtx_lock(&server->sync_object).  The workers are interchangeable:
\* the message goes to the first idle one.
WorkerPop(t) ==
    /\ pc # "crashed"
    /\ wpc[t] = "idle"
    /\ \A u \in Workers : wpc[u] = "idle" => t <= u
    /\ queue # <<>>
    /\ mutex = NoThread
    /\ mutex' = t
    /\ wmsg' = [wmsg EXCEPT ![t] = Head(queue)]
    /\ queue' = Tail(queue)
    /\ wpc' = [wpc EXCEPT ![t] = "lookup"]
    /\ lastOp' = Op("pop", Head(queue).client, "locked")
    /\ trace' = <<>>
    /\ UNCHANGED <<server, protocols, clients, aio, arena, pc, entry,
                   received, accepted, wanted>>
    /\ UNCHANGED link

\* get_protocol_action and mtx_unlock; on a miss the error event and return
WorkerLookup(t, sendOk) ==
    /\ pc # "crashed"
    /\ wpc[t] = "lookup"
    /\ mutex' = NoThread
    /\ LET h == ParseHeader(wmsg[t])
       IN  IF get_protocol_action(protocols, h.protocol, h.action)
           THEN /\ wpc' = [wpc EXCEPT ![t] = "action"]
                /\ lastOp' = [InvokeOp(wmsg[t]) EXCEPT !.result = "found"]
                /\ trace' = <<>>
                /\ UNCHANGED <<clients, aio, accepted, wanted, entry, pc>>
           ELSE /\ wpc' = [wpc EXCEPT ![t] = "cleanup"]
                /\ lastOp' = InvokeOp(wmsg[t])
                /\ Commit(InvokeMiss(World, wmsg[t], [DefaultAlt EXCEPT !.sendOk = sendOk]),
                          <<>>, pc)
    /\ UNCHANGED <<server, protocols, arena, queue, wmsg, received>>
    /\ UNCHANGED link

\* the action runs, outside sync_object
WorkerAction(t, alt) ==
    /\ pc # "crashed"
    /\ wpc[t] = "action"
    /\ alt \in Alternatives(wmsg[t].client, ParseHeader(wmsg[t]).protocol,
                            ParseHeader(wmsg[t]).action)
    /\ LET w == InvokeHit(World, wmsg[t], alt)
       IN  Commit(w, <<>>, pc)
    /\ wpc' = [wpc EXCEPT ![t] = "cleanup"]
    /\ lastOp' = [InvokeOp(wmsg[t]) EXCEPT !.result = "done"]
    /\ UNCHANGED <<server, protocols, mutex, arena, queue, wmsg, received>>
    /\ UNCHANGED link

\* server_cleanup_message: the block goes back to the arena under the lock
WorkerCleanup(t) ==
    /\ pc # "crashed"
    /\ wpc[t] = "cleanup"
    /\ mutex = NoThread
    /\ arena' = server_cleanup_message(arena, wmsg[t])
    /\ wpc' = [wpc EXCEPT ![t] = "idle"]
    /\ wmsg' = [wmsg EXCEPT ![t] = NoMessage]
    /\ lastOp' = Op("cleanup", wmsg[t].client, "freed")
    /\ trace' = <<>>
    /\ UNCHANGED <<server, protocols, clients, aio, mutex, queue, pc, entry,
                   received, accepted, wanted>>
    /\ UNCHANGED link

(***************************************************************************)
(* Operations the application calls.                                       *)
(***************************************************************************)
\* application code runs between two events of the loop
CanCall == Running
\* cursor of a packed event
EventCursors == {20}

\* the link's send_client on `conn`: the call is made and its outcome is the
\* link's, a failure on the handles in `failing`
send_client(w, conn, message, failing) ==
    [w EXCEPT !.calls = Append(@, [Send("send_client", conn, message)
                                   EXCEPT !.status = IF conn \in failing THEN "failed"
                                                     ELSE "ok"])]

\* client_enum_broadcast without the client_is_subscribed test
client_enum_broadcast_Unfiltered(w, client, message, failing) ==
    send_client(w, client.handle, message, failing)

\* client_enum_broadcast for one registry entry; what send_client returns is
\* not looked at
client_enum_broadcast(w, client, message, failing) ==
    IF client_is_subscribed(client, message.protocol)
    THEN send_client(w, client.handle, message, failing)
    ELSE w

\* an enumeration that ends at the first send_client that fails
RECURSIVE EnumBroadcast_StopsAtFailure(_, _, _, _)
EnumBroadcast_StopsAtFailure(w, conns, message, failing) ==
    IF conns = {} THEN w
    ELSE LET c == CHOOSE x \in conns : \A y \in conns : x <= y
             w1 == client_enum_broadcast(w, w.clients[c], message, failing)
         IN  IF w1.calls # w.calls /\ c \in failing THEN w1
             ELSE EnumBroadcast_StopsAtFailure(w1, conns \ {c}, message, failing)

\* hashtable_enumerate(&clients, client_enum_broadcast, &context)
RECURSIVE EnumBroadcast(_, _, _, _)
EnumBroadcast(w, conns, message, failing) ==
    IF conns = {} THEN w
    ELSE LET c == CHOOSE x \in conns : \A y \in conns : x <= y
         IN  EnumBroadcast(client_enum_broadcast(w, w.clients[c], message, failing),
                           conns \ {c}, message, failing)

\* gracht_server_broadcast_event: the length is set to the cursor, the
\* registry enumerated, and 0 returned
gracht_server_broadcast_event(w, message, failing) ==
    EnumBroadcast(w, DOMAIN w.clients, [message EXCEPT !.length = message.index], failing)

Broadcast(protocol, cursor, failing) ==
    /\ CanCall
    /\ Commit(gracht_server_broadcast_event(World, OutBuffer(protocol, cursor), failing),
              <<>>, pc)
    /\ lastOp' = OpMsg("broadcast", CONN_INVALID, "ok", 0, protocol)
    /\ UNCHANGED <<server, protocols, mutex, arena, queue, wpc, wmsg, received>>
    /\ UNCHANGED link

\* gracht_server_send_event consulting the subscription bitmap as a
\* broadcast does
gracht_server_send_event_SubscribersOnly(w, conn, message) ==
    IF ~hashtable_has(w.clients, conn)
    THEN [w EXCEPT !.errno = "ENOENT"]
    ELSE client_enum_broadcast(w, w.clients[conn],
                               [message EXCEPT !.length = message.index], {})

\* gracht_server_send_event: ENOENT for a handle without a record, otherwise
\* the link's send_client, the subscriptions not consulted
gracht_server_send_event(w, conn, message) ==
    IF ~hashtable_has(w.clients, conn)
    THEN [w EXCEPT !.errno = "ENOENT"]
    ELSE [w EXCEPT !.calls = Append(@, Send("send_client", conn,
                                [message EXCEPT !.length = message.index]))]

SendEvent(conn, protocol, cursor) ==
    /\ CanCall
    /\ LET w == gracht_server_send_event(World, conn, OutBuffer(protocol, cursor))
       IN  /\ Commit(w, <<>>, pc)
           /\ lastOp' = OpMsg("send_event", conn,
                              IF w.errno = "none" THEN "sent" ELSE w.errno, 0, protocol)
    /\ UNCHANGED <<server, protocols, mutex, arena, queue, wpc, wmsg, received>>
    /\ UNCHANGED link

\* the contexts of requests the application has kept to answer them later,
\* one of a stream client and one of a datagram peer, and a null one
KeptContexts ==
    {RecvMessage(c, IF c = PeerConn THEN <<AddressWord>> ELSE <<>>, FirstMessageId,
                 p, "call", 0, StaticBlock) : c \in Conns, p \in AppProtocols}
    \cup {NullContext}
\* the buffers it answers with: a packed response, and a null one
ResponseBuffers == {OutBuffer(p, c) : p \in AppProtocols, c \in EventCursors} \cup {NullBuffer}

\* the application calls gracht_server_respond outside of an action
Respond(messageContext, message) ==
    /\ CanCall
    /\ LET w == gracht_server_respond(World, messageContext, message)
       IN  /\ Commit(w, <<>>, pc)
           /\ lastOp' = [Op("respond", messageContext.client,
                             IF w.errno = "none" THEN "ok" ELSE w.errno)
                         EXCEPT !.index = message.index]
    /\ UNCHANGED <<server, protocols, mutex, arena, queue, wpc, wmsg, received>>
    /\ UNCHANGED link

RegisterProtocol(protocol) ==
    /\ CanCall
    /\ protocol \notin DOMAIN protocols
    /\ protocols' = register_protocol(protocols, protocol, {"call"})
    /\ lastOp' = OpMsg("register_protocol", CONN_INVALID, "ok", 0, protocol)
    /\ trace' = <<>>
    /\ UNCHANGED <<server, clients, aio, mutex, arena, queue, wpc, wmsg, pc, entry,
                   received, accepted, wanted>>
    /\ UNCHANGED link

(***************************************************************************)
(* The client's socket link: src/link/socket/client.c.  Its operations     *)
(* take the link with its socket and return it as the code leaves it.      *)
(***************************************************************************)
GRACHT_MAX_MESSAGE_SIZE == 512
\* sizeof(struct gracht_message), the fixed header, and
\* sizeof(struct gracht_param), one parameter descriptor
MESSAGE_SIZE == HEADER_WORDS * 4
PARAM_SIZE == 16
\* the largest integer of the model; it stands for the values at the top of
\* size_t that a negative or wrapped-around count converts to
SIZE_TOP == 2147483647
\* widths of size_t the build can have (intmax_t has 64 bits)
SizeBits == {32, 64}

\* (size_t)n of a signed count n
ToSize(n) == IF n < 0 THEN SIZE_TOP + n + 1 ELSE n
\* a - b computed in size_t
SizeSub(a, b) == IF a < b THEN SIZE_TOP - (b - a) + 1 ELSE a - b

\* the bytes a send hands to sendmsg: iov[0] is the header with the
\* param_in + param_out descriptors, the others the in-parameters' buffers
Wire(message) ==
    MESSAGE_SIZE + (message.param_in + message.param_out) * PARAM_SIZE + message.payload

Header(message) ==
    [length |-> message.length, param_in |-> message.param_in,
     param_out |-> message.param_out]

\* one request made of the socket: what was asked for and what it returned
Request(call, want, got) == [call |-> call, want |-> want, got |-> got]

\* the outcome of an operation on link l
Outcome(l, op, status, errno, delivered, out, reads, moved) ==
    [l EXCEPT !.op = op, !.status = status, !.errno = errno, !.delivered = delivered,
              !.out = out, !.reads = reads, !.moved = moved]

\* the bytes in flight on the stream, and those of them not yet read
RECURSIVE InFlight(_)
InFlight(stream) ==
    IF stream = <<>> THEN 0 ELSE Head(stream).bytes + InFlight(Tail(stream))
Available(l) == InFlight(l.stream) - l.offset

\* the socket after n of its bytes have been read
RECURSIVE Consume(_, _)
Consume(l, n) ==
    IF n = 0 \/ l.stream = <<>> THEN l
    ELSE IF l.offset + n < Head(l.stream).bytes THEN [l EXCEPT !.offset = @ + n]
    ELSE Consume([l EXCEPT !.stream = Tail(@), !.offset = 0],
                 n - (Head(l.stream).bytes - l.offset))

\* recv(iod, buffer, n, flags): -1 on an error, otherwise the n bytes asked
\* for, or the fewer that arrive before the peer's end or a timeout
OsRead(l, n, os) ==
    IF os = "error" THEN 0 - 1
    ELSE IF Available(l) >= n THEN n ELSE Available(l)

\* the next bytes of the stream are the whole header of a transmission
AtHeader(l) == l.stream # <<>> /\ l.offset = 0 /\ Head(l.stream).bytes >= MESSAGE_SIZE
\* the header fields recv finds in MESSAGE_SIZE bytes read from the stream:
\* those of the transmission that starts there, or what other bytes spell
HeaderRead(l, junk) == IF AtHeader(l) THEN Header(Head(l.stream)) ELSE junk

\* socket_link_send_stream: one sendmsg of the whole vector; `os` is what
\* sendmsg does: it sends all bytes, one byte less, or fails
socket_link_send_stream(l, message, os) ==
    LET byteCount == IF os = "full" THEN Wire(message)
                     ELSE IF os = "short" THEN Wire(message) - 1 ELSE 0 - 1
        sent == IF byteCount > 0
                THEN Append(l.stream, [length |-> message.length,
                                       param_in |-> message.param_in,
                                       param_out |-> message.param_out,
                                       bytes |-> byteCount])
                ELSE l.stream
        l1 == [l EXCEPT !.stream = sent]
        reads == <<Request("sendmsg", Wire(message), byteCount)>>
    IN  IF byteCount # message.length
        THEN Outcome(l1, "send", "ERROR", "EPIPE", FALSE, Header(message), reads,
                     IF byteCount > 0 THEN byteCount ELSE 0)
        ELSE Outcome(l1, "send", "INPROGRESS", "none", FALSE, Header(message), reads, byteCount)

\* socket_link_send_packet: the same vector as one datagram, which leaves
\* for the server's socket
socket_link_send_packet(l, message, os) ==
    LET byteCount == IF os = "full" THEN Wire(message)
                     ELSE IF os = "short" THEN Wire(message) - 1 ELSE 0 - 1
        reads == <<Request("sendmsg", Wire(message), byteCount)>>
    IN  IF byteCount # message.length
        THEN Outcome(l, "send", "ERROR", "EPIPE", FALSE, Header(message), reads,
                     IF byteCount > 0 THEN byteCount ELSE 0)
        ELSE Outcome(l, "send", "INPROGRESS", "none", FALSE, Header(message), reads, byteCount)

\* socket_link_send with the length test behind the test of the link type
socket_link_send_TypeFirst(l, message, os) ==
    IF l.type = "stream" THEN socket_link_send_stream(l, message, os)
    ELSE IF l.type = "packet" THEN socket_link_send_packet(l, message, os)
    ELSE IF message.length > GRACHT_MAX_MESSAGE_SIZE
    THEN Outcome(l, "send", "ERROR", "E2BIG", FALSE, Header(message), <<>>, 0)
    ELSE Outcome(l, "send", "ERROR", "ENOTSUP", FALSE, Header(message), <<>>, 0)

\* socket_link_send: the length check, then the send of the link's type
socket_link_send(l, message, os) ==
    IF message.length > GRACHT_MAX_MESSAGE_SIZE
    THEN Outcome(l, "send", "ERROR", "E2BIG", FALSE, Header(message), <<>>, 0)
    ELSE IF l.type = "stream" THEN socket_link_send_stream(l, message, os)
    ELSE IF l.type = "packet" THEN socket_link_send_packet(l, message, os)
    ELSE Outcome(l, "send", "ERROR", "ENOTSUP", FALSE, Header(message), <<>>, 0)

\* socket_link_recv_stream: recv of the fixed header, then, when the header
\* has in-parameters, recv of length - sizeof(struct gracht_message) bytes
socket_link_recv_stream(l, os1, os2, junk) ==
    LET r1 == OsRead(l, MESSAGE_SIZE, os1)
        got1 == IF r1 < 0 THEN 0 ELSE r1
        l1 == Consume(l, got1)
        q1 == Request("recv", MESSAGE_SIZE, r1)
        h == HeaderRead(l, junk)
        want == SizeSub(h.length, MESSAGE_SIZE)
        r2 == OsRead(l1, want, os2)
        got2 == IF r2 < 0 THEN 0 ELSE r2
        l2 == Consume(l1, got2)
        q2 == Request("recv", want, r2)
    IN  IF ToSize(r1) # MESSAGE_SIZE
        THEN Outcome(l1, "recv_stream", "failed",
                     IF ToSize(r1) = 0 THEN "ENODATA" ELSE "EPIPE",
                     FALSE, NoHeader, <<q1>>, got1)
        ELSE IF h.param_in = 0
        THEN Outcome(l1, "recv_stream", "ok", "none", TRUE, h, <<q1>>, got1)
        ELSE IF ToSize(r2) # want
        THEN Outcome(l2, "recv_stream", "failed", "EPIPE", FALSE, NoHeader, <<q1, q2>>,
                     got1 + got2)
        ELSE Outcome(l2, "recv_stream", "ok", "none", TRUE, h, <<q1, q2>>, got1 + got2)

\* socket_link_recv_packet: one recvmsg; `datagram` is what it returns, the
\* bytes of a datagram or -1, and what the buffer then holds.  The count is
\* an intmax_t and is compared with a size_t of `bits` bits: as a signed
\* number when size_t is narrower, converted to size_t when it is not
socket_link_recv_packet(l, datagram, bits) ==
    LET bytes_read == datagram.bytes
        short == IF bits < 64 THEN bytes_read < MESSAGE_SIZE
                 ELSE ToSize(bytes_read) < MESSAGE_SIZE
        reads == <<Request("recvmsg", GRACHT_MAX_MESSAGE_SIZE, bytes_read)>>
    IN  IF short
        THEN Outcome(l, "recv_packet", "failed",
                     IF bytes_read = 0 THEN "ENODATA" ELSE "EPIPE",
                     FALSE, NoHeader, reads, 0)
        ELSE Outcome(l, "recv_packet", "ok", "none", TRUE, datagram.header, reads,
                     IF bytes_read < 0 THEN 0 ELSE bytes_read)

\* socket_link_recv: the receive of the link's type
socket_link_recv(l, os1, os2, junk, datagram, bits) ==
    IF l.type = "stream" THEN socket_link_recv_stream(l, os1, os2, junk)
    ELSE IF l.type = "packet" THEN socket_link_recv_packet(l, datagram, bits)
    ELSE Outcome(l, "recv", "failed", "ENOTSUP", FALSE, NoHeader, <<>>, 0)

\* the server's state is not touched by a client's link
ServerUnchanged ==
    UNCHANGED <<server, protocols, clients, aio, mutex, arena, queue, wpc, wmsg, pc,
                entry, received, lastOp, trace, accepted, wanted>>

\* bounds on the transmissions in flight on the stream, and on those of
\* them that sendmsg has cut short
MaxInFlight == 2
MaxCutShort == 1
CutShort(stream) == {i \in DOMAIN stream : stream[i].bytes # stream[i].length}

\* the client sends `message` (the link's send operation)
LinkSend(message, os) ==
    /\ link.type # "none"
    /\ Len(link.stream) < MaxInFlight
    /\ os = "short" => Cardinality(CutShort(link.stream)) < MaxCutShort
    /\ link' = socket_link_send(link, message, os)
    /\ ServerUnchanged

\* the inputs that make no difference for a link of type `type`
NoDatagram == [bytes |-> 0, header |-> NoHeader]
Irrelevant(type, os1, os2, junk, datagram, bits) ==
    /\ type # "stream" => os1 = "data" /\ os2 = "data"
    /\ (type # "stream" \/ AtHeader(link)) => junk = NoHeader
    /\ type # "packet" => datagram = NoDatagram /\ bits = 64

\* the client receives (the link's recv operation)
LinkRecv(os1, os2, junk, datagram, bits) ==
    /\ link.type # "none"
    /\ Irrelevant(link.type, os1, os2, junk, datagram, bits)
    /\ link' = socket_link_recv(link, os1, os2, junk, datagram, bits)
    /\ ServerUnchanged

(***************************************************************************)
(* The specification.                                                      *)
(***************************************************************************)
ReceiveErrors == {"ENODATA", "EPIPE"}
AllAlternatives ==
    {Alternative(o, ub, c, ok) : o \in BOOLEAN, ub \in Faults, c \in Cursors, ok \in BOOLEAN}

\* initialize on the server as constructed, every allocation succeeding
FirstInitialize(cfg, stream, dgram) ==
    /\ server = StaticServer
    /\ Initialize(cfg, "none", stream, dgram)

Next ==
    \/ InitializeAlready
    \/ InitializeNull
    \/ \E cfg \in Configurations : FirstInitialize(cfg, "ok", "ok")
    \/ MainLoopEnter
    \/ MainLoopExit
    \/ ClearInitialized
    \/ \E ok \in BOOLEAN, conn \in StreamConns \cup {CONN_INVALID} :
            HandleListenEvent(ok, conn)
    \/ AcceptInsert
    \/ \E conn \in Conns, events \in EventMasks : HandleDisconnectEvent(conn, events)
    \/ \E conn \in Conns, events \in EventMasks : HandleInEvent(conn, events)
    \/ HandleDgramEvent
    \/ \E req \in Requests, alt \in AllAlternatives : DrainClientStep(req, alt)
    \/ \E errno \in ReceiveErrors : DrainClientFail(errno)
    \/ \E ub \in Faults : DrainClientBad(ub)
    \/ \E req \in Requests, alt \in AllAlternatives : DrainDgramStep(req, alt)
    \/ \E errno \in ReceiveErrors : DrainDgramFail(errno)
    \/ \E ub \in Faults : DrainDgramBad(ub)
    \/ \E t \in Workers : WorkerPop(t)
    \/ \E t \in Workers, sendOk \in BOOLEAN : WorkerLookup(t, sendOk)
    \/ \E t \in Workers, alt \in AllAlternatives : WorkerAction(t, alt)
    \/ \E t \in Workers : WorkerCleanup(t)
    \/ \E protocol \in ProtocolIds, cursor \in EventCursors, failing \in SUBSET Conns :
            Broadcast(protocol, cursor, failing)
    \/ \E conn \in Conns, protocol \in AppProtocols, cursor \in EventCursors :
            SendEvent(conn, protocol, cursor)
    \/ \E protocol \in AppProtocols : RegisterProtocol(protocol)
    \/ \E messageContext \in KeptContexts, message \in ResponseBuffers :
            Respond(messageContext, message)

Spec == Init /\ [][Next]_vars

(***************************************************************************)
(* The life cycle alone: initialize with every configuration, every        *)
(* allocation of configure_server failing in turn and every result of the  *)
(* link's two listen calls, the main loop entered and left.                *)
(***************************************************************************)
\* what link->listen does for one kind: a handle, errno ENOTSUP, another errno
ListenResults == {"ok", "ENOTSUP", "error"}
\* the allocation of configure_server that fails, if one does
AllocationFailures == {"none", "aio", "pool", "arena", "send", "recv"}
LifecycleConfigurations ==
    [callbacks : {[clientConnected |-> TRUE, clientDisconnected |-> TRUE]},
     set_descriptor_provided : BOOLEAN,
     max_message_size : {MaxMessageSize},
     arena_blocks : {ArenaBlocks},
     server_workers : {1, 2}]

\* create_links is reached only when no allocation has failed
InitializeInputs ==
    {<<"none", stream, dgram>> : stream \in ListenResults, dgram \in ListenResults}
    \cup {<<fail, "ok", "ok">> : fail \in AllocationFailures \ {"none"}}

LifecycleNext ==
    \/ InitializeAlready
    \/ InitializeNull
    \/ \E cfg \in LifecycleConfigurations, in \in InitializeInputs :
            Initialize(cfg, in[1], in[2], in[3])
    \/ MainLoopEnter
    \/ MainLoopExit
    \/ ClearInitialized

LifecycleSpec == Init /\ [][LifecycleNext]_vars

(***************************************************************************)
(* The multi-threaded receive path alone, with an arena that has room for  *)
(* a message while another one waits: accept, the two drain loops and the  *)
(* worker pool.                                                            *)
(***************************************************************************)
OrderConfigurations ==
    [callbacks : {[clientConnected |-> TRUE, clientDisconnected |-> TRUE]},
     set_descriptor_provided : {FALSE},
     max_message_size : {MaxMessageSize},
     arena_blocks : {OrderArenaBlocks},
     server_workers : {2}]
\* the requests sent: one whose action is found and one whose action is not
OrderRequests == {<<ControlProtocol, "subscribe", 3>>, <<32, "call", 0>>}

OrderNext ==
    \/ \E cfg \in OrderConfigurations : FirstInitialize(cfg, "ok", "ok")
    \/ MainLoopEnter
    \/ \E ok \in BOOLEAN, conn \in StreamConns \cup {CONN_INVALID} :
            HandleListenEvent(ok, conn)
    \/ AcceptInsert
    \/ \E conn \in Conns, events \in EventMasks : HandleInEvent(conn, events)
    \/ HandleDgramEvent
    \/ \E req \in OrderRequests, alt \in AllAlternatives : DrainClientStep(req, alt)
    \/ \E errno \in ReceiveErrors : DrainClientFail(errno)
    \/ \E req \in OrderRequests, alt \in AllAlternatives : DrainDgramStep(req, alt)
    \/ \E errno \in ReceiveErrors : DrainDgramFail(errno)
    \/ \E t \in Workers : WorkerPop(t)
    \/ \E t \in Workers, sendOk \in BOOLEAN : WorkerLookup(t, sendOk)
    \/ \E t \in Workers, alt \in AllAlternatives : WorkerAction(t, alt)
    \/ \E t \in Workers : WorkerCleanup(t)

OrderSpec == Init /\ [][OrderNext]_vars

(***************************************************************************)
(* Protocol id 0xFF used as the id of an application protocol: registered, *)
(* called by a client and broadcast on, in single-threaded mode.           *)
(***************************************************************************)
ReservedIdConfigurations ==
    [callbacks : {[clientConnected |-> TRUE, clientDisconnected |-> TRUE]},
     set_descriptor_provided : {FALSE},
     max_message_size : {MaxMessageSize},
     arena_blocks : {ArenaBlocks},
     server_workers : {1}]
\* the protocols the application registers and broadcasts on
ReservedIdProtocols == AppProtocols \cup {ALL_PROTOCOLS}
\* the requests sent: subscriptions, and a call of the action of each
ReservedIdRequests ==
    {<<ControlProtocol, "subscribe", p>> : p \in ReservedIdProtocols}
    \cup {<<p, "call", 0>> : p \in ReservedIdProtocols}

ReservedIdNext ==
    \/ \E cfg \in ReservedIdConfigurations : FirstInitialize(cfg, "ok", "ok")
    \/ MainLoopEnter
    \/ \E ok \in BOOLEAN, conn \in StreamConns \cup {CONN_INVALID} :
            HandleListenEvent(ok, conn)
    \/ AcceptInsert
    \/ \E conn \in Conns, events \in EventMasks : HandleInEvent(conn, events)
    \/ \E req \in ReservedIdRequests, alt \in AllAlternatives : DrainClientStep(req, alt)
    \/ \E errno \in ReceiveErrors : DrainClientFail(errno)
    \/ \E protocol \in ReservedIdProtocols : RegisterProtocol(protocol)
    \/ \E protocol \in ReservedIdProtocols, cursor \in EventCursors :
            Broadcast(protocol, cursor, {})

ReservedIdSpec == Init /\ [][ReservedIdNext]_vars

(***************************************************************************)
(* The events the application sends, over every registry of up to two      *)
(* clients: an accepted stream client and a datagram peer, each with the   *)
(* subscriptions a sequence of subscribe requests leaves in its record.    *)
(***************************************************************************)
\* the protocol ids each client has subscribed to, one after the other
EventSubscriptions == {{}, {3}, {32}, {3, 32}, {ALL_PROTOCOLS}}

\* the record after client_subscribe for every id of `ids`
RECURSIVE Subscribed(_, _)
Subscribed(client, ids) ==
    IF ids = {} THEN client
    ELSE LET id == CHOOSE x \in ids : \A y \in ids : x <= y
         IN  Subscribed(client_subscribe(client, id), ids \ {id})

\* the server after a successful initialize with `cfg`, both kinds listening
InitializedServer(cfg) ==
    [create_links(configure_server(StaticServer, cfg, "none").server, "ok", "ok").server
        EXCEPT !.tables = "live", !.initialized = 1]

\* the main loop of a server initialized with `cfg` waits for events; the
\* clients `conns` are connected, client c subscribed to the ids subs[c]
Serving(cfg, conns, subs) ==
    /\ server = InitializedServer(cfg)
    /\ protocols = register_protocol(EmptyTable, ControlProtocol,
                                     {"subscribe", "unsubscribe"})
    /\ clients = [c \in conns |-> Subscribed(NewClient(c), subs[c])]
    /\ aio = {ListenConn, DgramConn} \cup (conns \cap StreamConns)
    /\ mutex = NoThread
    /\ arena = {}
    /\ queue = <<>>
    /\ wpc = [w \in Workers |-> "idle"]
    /\ wmsg = [w \in Workers |-> NoMessage]
    /\ pc = "wait"
    /\ entry = NoEntry
    /\ received = 0
    /\ lastOp = Op("main_loop", CONN_INVALID, "entered")
    /\ trace = <<>>
    /\ accepted = conns \cap StreamConns
    /\ wanted = [c \in Conns |->
                    IF c \in conns THEN UNION {Asked(id) : id \in subs[c]} ELSE {}]
    /\ link = NoLink

EventInit ==
    \E cfg \in Configurations, conns \in SUBSET Conns :
        \E subs \in [conns -> EventSubscriptions] : Serving(cfg, conns, subs)

EventNext ==
    \/ \E protocol \in ProtocolIds, cursor \in EventCursors, failing \in SUBSET Conns :
            Broadcast(protocol, cursor, failing)
    \/ \E conn \in Conns, protocol \in AppProtocols, cursor \in EventCursors :
            SendEvent(conn, protocol, cursor)

EventSpec == EventInit /\ [][EventNext]_vars

(***************************************************************************)
(* A client's socket link alone: a link of each type, the messages sent    *)
(* through it and what its socket returns.                                 *)
(***************************************************************************)
LinkTypes == {"stream", "packet", "other"}
\* a message whose length field is the number of bytes it has on the wire
WellFormed(in, out, payload) ==
    [length |-> MESSAGE_SIZE + (in + out) * PARAM_SIZE + payload,
     param_in |-> in, param_out |-> out, payload |-> payload]
\* the messages sent: every combination of no or one in-parameter and no or
\* one out-parameter, one with a buffer, and messages of the length
\* GRACHT_MAX_MESSAGE_SIZE and above it
LinkMessages ==
    {WellFormed(in, out, 0) : in \in 0..1, out \in 0..1}
    \cup {WellFormed(1, 0, 8)}
    \cup {WellFormed(1, 0, GRACHT_MAX_MESSAGE_SIZE - MESSAGE_SIZE - PARAM_SIZE + d) :
             d \in {0, 1, 100}}
\* what sendmsg and recv do
SendOutcomes == {"full", "short", "error"}
ReadOutcomes == {"data", "error"}
\* header fields spelled by bytes that are not a header
JunkHeaders ==
    {NoHeader, [length |-> 4, param_in |-> 1, param_out |-> 0]}
\* what recvmsg returns: -1, or the bytes of the datagram received
Datagrams ==
    {[bytes |-> n, header |-> NoHeader] : n \in {0 - 1, 0, 1, MESSAGE_SIZE - 1}}
    \cup {NoDatagram}
    \cup {[bytes |-> m.length, header |-> Header(m)] :
             m \in {WellFormed(0, 0, 0), WellFormed(1, 0, 8)}}

\* gracht_link_socket_client_create with a configuration of each type
LinkInit ==
    /\ server = StaticServer
    /\ protocols = EmptyTable
    /\ clients = EmptyTable
    /\ aio = {}
    /\ mutex = NoThread
    /\ arena = {}
    /\ queue = <<>>
    /\ wpc = [w \in Workers |-> "idle"]
    /\ wmsg = [w \in Workers |-> NoMessage]
    /\ pc = "out"
    /\ entry = NoEntry
    /\ received = 0
    /\ lastOp = Op("none", CONN_INVALID, "none")
    /\ trace = <<>>
    /\ accepted = {}
    /\ wanted = [c \in Conns |-> {}]
    /\ \E type \in LinkTypes : link = [NoLink EXCEPT !.type = type]

LinkNext ==
    \/ \E message \in LinkMessages, os \in SendOutcomes : LinkSend(message, os)
    \/ \E os1 \in ReadOutcomes, os2 \in ReadOutcomes, junk \in JunkHeaders,
          datagram \in Datagrams, bits \in SizeBits :
            LinkRecv(os1, os2, junk, datagram, bits)

LinkSpec == LinkInit /\ [][LinkNext]_vars

(***************************************************************************)
(* The subscription bitmap alone: client_subscribe and client_unsubscribe  *)
(* applied to the record of a registered client, for every protocol id.    *)
(***************************************************************************)
\* bound on the number of bitmap operations of one behaviour
MaxBitmapOps == 1
\* the bitmaps the operations start from: empty, bits in two words, full
BitmapSubscriptions == {{}, {3, 32}, {ALL_PROTOCOLS}}

\* client_subscribe(entry->client, id) on the record of `conn`
ClientSubscribe(conn, id) ==
    /\ Running
    /\ hashtable_has(clients, conn)
    /\ received < MaxBitmapOps
    /\ received' = received + 1
    /\ clients' = [clients EXCEPT ![conn] = client_subscribe(@, id)]
    /\ wanted' = [wanted EXCEPT ![conn] = @ \cup Asked(id)]
    /\ lastOp' = OpMsg("client_subscribe", conn, "ok", 0, id)
    /\ trace' = <<>>
    /\ UNCHANGED <<server, protocols, aio, mutex, arena, queue, wpc, wmsg, pc, entry,
                   accepted, link>>

\* client_unsubscribe(entry->client, id) on the record of `conn`
ClientUnsubscribe(conn, id) ==
    /\ Running
    /\ hashtable_has(clients, conn)
    /\ received < MaxBitmapOps
    /\ received' = received + 1
    /\ clients' = [clients EXCEPT ![conn] = client_unsubscribe(@, id)]
    /\ wanted' = [wanted EXCEPT ![conn] = @ \ Asked(id)]
    /\ lastOp' = OpMsg("client_unsubscribe", conn, "ok", 0, id)
    /\ trace' = <<>>
    /\ UNCHANGED <<server, protocols, aio, mutex, arena, queue, wpc, wmsg, pc, entry,
                   accepted, link>>

BitmapInit ==
    \E cfg \in ReservedIdConfigurations, conns \in SUBSET Conns :
        \E subs \in [conns -> BitmapSubscriptions] : Serving(cfg, conns, subs)

BitmapNext ==
    \/ \E conn \in Conns, id \in 0..ALL_PROTOCOLS : ClientSubscribe(conn, id)
    \/ \E conn \in Conns, id \in 0..ALL_PROTOCOLS : ClientUnsubscribe(conn, id)

BitmapSpec == BitmapInit /\ [][BitmapNext]_vars

(***************************************************************************)
(* The claims.  `lastOp` and `trace` describe the step that led to the      *)
(* state: the operation that ran and the calls it made, in order.          *)
(***************************************************************************)
\* positions in `trace` of the calls of `name` for handle `conn`
Calls(name, conn) == {i \in DOMAIN trace : trace[i].call = name /\ trace[i].conn = conn}
\* the action of an invoked message has run (on the spot in single-threaded
\* mode, by a worker in multi-threaded mode)
ActionRan(name) == lastOp.op = name /\ lastOp.result \in {"hit", "done"}
\* the bit of protocol id `id` in a record's bitmap, read without the code
BitOf(client, id) == (id % 32) \in client.subscriptions[id \div 32]

\* C1: when main_loop has left the wait loop of an initialized server,
\* shutdown has been carried out: it succeeded, the registries, the link, the
\* server-owned readiness handle, the worker pool, the arena and the static
\* buffers are destroyed, no client is left in the registry and the server
\* is uninitialized.
C1_ShutdownCarriedOut ==
    (lastOp.op = "main_loop" /\ lastOp.result # "entered" /\ server.tables # "none") =>
        /\ lastOp.result = "ok"
        /\ server.initialized = 0
        /\ server.tables = "destroyed"
        /\ server.link = "destroyed"
        /\ server.set_handle_provided = 0 => server.set_handle = "destroyed"
        /\ server.worker_pool # "live"
        /\ server.arena # "live"
        /\ server.sendBuffer # "live"
        /\ server.recvBuffer # "live"
        /\ clients = EmptyTable

\* C2: when the control protocol's subscribe(p) has run for a handle that
\* had no record and the link's create_client succeeded, the process goes
\* on, the registry holds a record under that handle and the record has the
\* bit of p set (every bit for 0xFF), so that a broadcast on p reaches it.
C2_SubscribeRegistersPeer ==
    \A c \in Conns :
        (ActionRan("subscribe") /\ Calls("create_client", c) # {}) =>
            /\ pc # "crashed"
            /\ hashtable_has(clients, c)
            /\ \A q \in Asked(lastOp.protocol) : BitOf(clients[c], q)

\* C3: every response gracht_server_respond sends for a received message,
\* through send_client or through the link's respond, carries the id that
\* server_invoke_action parsed from the request, and its length is the
\* cursor of the response buffer.
C3_ResponseCarriesRequestId ==
    ActionRan("call") =>
        \A i \in DOMAIN trace :
            trace[i].call \in {"respond", "send_client"} =>
                /\ trace[i].id = lastOp.id
                /\ trace[i].length = trace[i].index

\* C4: broadcast_event calls send_client once for every client of the
\* registry whose subscription bit of the message's protocol id is set and
\* for no other handle; a client whose subscribe(0xFF) is still in force for
\* that id is among them, whatever the id.
C4_BroadcastReachesExactlySubscribers ==
    lastOp.op = "broadcast" =>
        /\ \A i \in DOMAIN trace :
              /\ trace[i].call = "send_client"
              /\ hashtable_has(clients, trace[i].conn)
              /\ trace[i].protocol = lastOp.protocol
        /\ \A c \in DOMAIN clients :
              /\ Cardinality(Calls("send_client", c)) =
                    IF BitOf(clients[c], lastOp.protocol) THEN 1 ELSE 0
              /\ lastOp.protocol \in wanted[c] <=> Calls("send_client", c) # {}

C4_Witness ==
    /\ lastOp.op = "broadcast"
    /\ lastOp.protocol = 32
    /\ \E c, d \in DOMAIN clients :
          /\ wanted[c] = Asked(ALL_PROTOCOLS)
          /\ Calls("send_client", c) # {}
          /\ Calls("send_client", d) = {}

\* C5: when the control protocol's unsubscribe has run with 0xFF for a
\* handle that had a record, the registry holds no record under that handle,
\* and a broadcast sends only to handles the registry holds, whatever its
\* protocol id.
C5_UnsubscribeAllRemovesClient ==
    /\ (ActionRan("unsubscribe") /\ lastOp.protocol = ALL_PROTOCOLS) =>
            ~hashtable_has(clients, lastOp.conn)
    /\ lastOp.op = "broadcast" =>
            \A i \in DOMAIN trace : trace[i].conn \in DOMAIN clients

C5_Witness ==
    /\ ActionRan("unsubscribe")
    /\ lastOp.protocol = ALL_PROTOCOLS
    /\ Calls("destroy_client", lastOp.conn) # {}
    /\ \E c \in DOMAIN clients : c # lastOp.conn

\* C6: a DISCONNECT event for a client's handle first removes the handle
\* from the readiness set, then fires clientDisconnected for it once (when
\* the callback is installed), then, for a handle that had a record, calls
\* the link's destroy_client once; afterwards neither the readiness set nor
\* the registry holds the handle, and no call is made for another handle.
C6_DisconnectCleansUp ==
    lastOp.op = "disconnect" =>
        LET c == lastOp.conn
            fired == Calls("clientDisconnected", c)
            destroyed == Calls("destroy_client", c)
        IN  /\ c \notin aio
            /\ ~hashtable_has(clients, c)
            /\ Calls("aio_remove", c) = {1}
            /\ \A i \in DOMAIN trace : trace[i].conn = c
            /\ Cardinality(fired) = IF server.callbacks.clientDisconnected THEN 1 ELSE 0
            /\ Cardinality(destroyed) = IF lastOp.result = "registered" THEN 1 ELSE 0
            /\ \A i \in fired, j \in destroyed : i < j
            /\ Len(trace) = 1 + Cardinality(fired) + Cardinality(destroyed)

C6_Witness ==
    /\ lastOp.op = "disconnect"
    /\ lastOp.result = "registered"
    /\ trace = <<Call("aio_remove", lastOp.conn), Call("clientDisconnected", lastOp.conn),
                 Call("destroy_client", lastOp.conn)>>

\* the registry holds the accepted clients, and what a successful accept did
C7_AcceptedInv ==
    /\ server.callbacks.clientDisconnected =>
          \A c \in accepted : hashtable_has(clients, c) /\ clients[c].handle = c
    /\ \A c \in DOMAIN clients : clients[c].handle = c
    /\ (lastOp.op = "accept" /\ lastOp.result = "ok") =>
          /\ lastOp.conn \in accepted
          /\ hashtable_has(clients, lastOp.conn)
          /\ lastOp.conn \in aio
          /\ trace = IF server.callbacks.clientConnected
                     THEN <<Call("aio_add", lastOp.conn), Call("clientConnected", lastOp.conn)>>
                     ELSE <<Call("aio_add", lastOp.conn)>>
\* what a failed accept leaves alone
C7_FailedAcceptFrame ==
    (lastOp'.op = "accept" /\ lastOp'.result = "failed") =>
        clients' = clients /\ aio' = aio /\ accepted' = accepted

C8_RegistryUnderSyncObject ==
    MultiThreaded =>
        /\ \A t \in Workers : ~(pc = "accept" /\ wpc[t] = "action" /\ mutex = NoThread)
        /\ \A t, u \in Workers :
              (wpc[t] = "action" /\ wpc[u] = "action" /\ mutex = NoThread) => t = u

\* C9: when recv_client on an accepted client has failed with an error other
\* than ENODATA, the server has closed the client: clientDisconnected fired
\* (when installed), destroy_client was called, and neither the registry nor
\* the readiness set holds the handle.
C9_FatalReceiveClosesClient ==
    (lastOp.op = "recv_client" /\ lastOp.result # "ENODATA") =>
        /\ ~hashtable_has(clients, lastOp.conn)
        /\ lastOp.conn \notin aio
        /\ Calls("destroy_client", lastOp.conn) # {}
        /\ server.callbacks.clientDisconnected =>
              Calls("clientDisconnected", lastOp.conn) # {}

\* C10: in multi-threaded mode no receive of the link is attempted with the
\* null buffer an exhausted arena returns: the message is dropped, nothing
\* is given back to the arena for it and the event loop goes on.
C10_NullBufferDropsMessage ==
    MultiThreaded =>
        /\ lastOp.op \notin {"recv_client_null", "recv_packet_null"}
        /\ \A i \in DOMAIN trace :
              trace[i].call \notin {"recv_client_null", "recv_packet_null"}

\* the receive blocks that dispatched messages hold: those waiting in the
\* worker pool's queue and those a worker has popped and not yet cleaned up
BusyWorkers == {t \in Workers : wpc[t] # "idle"}
OwnedBlocks == {queue[i].block : i \in DOMAIN queue} \cup {wmsg[t].block : t \in BusyWorkers}

\* C11: in multi-threaded mode, while the process runs, the blocks
\* outstanding in the arena are exactly the blocks of the messages that are
\* queued or that a worker has popped and not yet cleaned up, one block per
\* message: a block whose receive failed has gone back through put_message,
\* a block is given back by the cleanup hook and not before, none is given
\* back twice, and with the queue drained and the workers idle no block is
\* outstanding.
C11_ArenaBlocksReturnedOnce ==
    (MultiThreaded /\ pc # "crashed") =>
        /\ arena = OwnedBlocks
        /\ Cardinality(arena) = Len(queue) + Cardinality(BusyWorkers)
        /\ arena \subseteq Blocks
        /\ \A i \in DOMAIN trace :
              trace[i].call = "put_message" => trace[i].conn \notin arena
        /\ Quiescent => arena = {}

C11_Witness ==
    /\ MultiThreaded
    /\ lastOp.op = "cleanup"
    /\ Quiescent
    /\ arena = {}
    /\ received = MaxRecv

\* C12: an initialize that fails on a configuration error (null
\* configuration, a listen call failing, both listen kinds unsupported)
\* leaves the server as it was before the call: no field of the server, no
\* registry and no member of the readiness set has changed.
C12_FailedInitializeLeavesNothing ==
    [][(lastOp'.op = "initialize" /\ lastOp'.result \in {"EINVAL", "links_failed"}) =>
            /\ server' = server
            /\ aio' = aio
            /\ protocols' = protocols
            /\ clients' = clients]_vars

\* C13: initialize on an initialized server fails with EALREADY and
\* initialize with a null configuration fails with EINVAL, both leaving the
\* server's fields, the registries and the readiness set unchanged; and once
\* an initialize has succeeded no further initialize succeeds before
\* shutdown has torn the server down.
C13_InitializeOnceUntilShutdown ==
    [][/\ (lastOp'.op = "initialize" /\ lastOp'.result \in {"EALREADY", "EINVAL"}) =>
              /\ server' = server
              /\ aio' = aio
              /\ protocols' = protocols
              /\ clients' = clients
       /\ (lastOp'.op = "initialize" /\ server.initialized = 1) =>
              lastOp'.result = "EALREADY"
       /\ (lastOp'.op = "initialize" /\ lastOp'.result = "ok") =>
              server.tables \in {"none", "destroyed"}]_vars

\* the step has run server_invoke_action for a message up to its end
Invocations == {"subscribe", "unsubscribe", "call"}
\* the (protocol, action) pair of the request the last step was about
RequestProtocol == IF lastOp.op = "call" THEN lastOp.protocol ELSE ControlProtocol
RequestAction == lastOp.op
CallsNamed(name) == {i \in DOMAIN trace : trace[i].call = name}

\* C14: when server_invoke_action finds no action for the request's
\* (protocol, action) pair, no action is invoked and one control-protocol
\* error with the request's id and code ENOENT goes to the originating
\* handle; when the pair is registered, that action and no other is invoked
\* once, with the cursor at the message's parse index plus the header size,
\* and no error is emitted.
C14_MissEmitsErrorHitInvokesOnce ==
    /\ (lastOp.op \in Invocations /\ lastOp.result = "miss") =>
          /\ ~get_protocol_action(protocols, RequestProtocol, RequestAction)
          /\ CallsNamed("invoke") = {}
          /\ Cardinality(CallsNamed("event_error")) = 1
          /\ \A i \in CallsNamed("event_error") :
                /\ trace[i].conn = lastOp.conn
                /\ trace[i].id = lastOp.id
                /\ trace[i].code = "ENOENT"
                /\ trace[i].protocol = ControlProtocol
    /\ (lastOp.op \in Invocations /\ lastOp.result \in {"hit", "done"}) =>
          /\ get_protocol_action(protocols, RequestProtocol, RequestAction)
          /\ CallsNamed("event_error") = {}
          /\ Cardinality(CallsNamed("invoke")) = 1
          /\ \A i \in CallsNamed("invoke") :
                /\ trace[i].conn = lastOp.conn
                /\ trace[i].id = lastOp.id
                /\ trace[i].protocol = RequestProtocol
                /\ trace[i].action = RequestAction
                /\ trace[i].index = lastOp.index + HEADER_WORDS

C14_Witness ==
    /\ lastOp.op = "call"
    /\ lastOp.result = "miss"
    /\ lastOp.conn = PeerConn
    /\ lastOp.protocol = 32
    /\ lastOp.id = FirstMessageId + 1
    /\ AppProtocols \subseteq DOMAIN protocols
    /\ CallsNamed("event_error") # {}

\* C15: send_event for a handle that has no record in the client registry
\* fails with ENOENT and makes no call; for a handle that has one it calls
\* send_client on it once, with the length set to the cursor, whether or not
\* the record's subscription bit of the message's protocol is set.
C15_SendEventIgnoresSubscriptions ==
    lastOp.op = "send_event" =>
        /\ lastOp.result = "ENOENT" <=> ~hashtable_has(clients, lastOp.conn)
        /\ ~hashtable_has(clients, lastOp.conn) => trace = <<>>
        /\ hashtable_has(clients, lastOp.conn) =>
              /\ Len(trace) = 1
              /\ trace[1].call = "send_client"
              /\ trace[1].conn = lastOp.conn
              /\ trace[1].protocol = lastOp.protocol
              /\ trace[1].length = trace[1].index

C15_Witness ==
    /\ lastOp.op = "send_event"
    /\ lastOp.result = "sent"
    /\ ~BitOf(clients[lastOp.conn], lastOp.protocol)
    /\ Calls("send_client", lastOp.conn) # {}
    /\ \E c \in DOMAIN clients : BitOf(clients[c], lastOp.protocol)

\* the calls by which a response leaves the server
ResponseCalls == CallsNamed("respond") \cup CallsNamed("send_client")

\* C16: gracht_server_respond, called by an action or by the application
\* with a kept context, makes exactly one call for the originating handle:
\* send_client when the handle has a record in the client registry, the
\* link's respond when it has none; with a null context or a null message
\* it fails with EINVAL and makes no call.
C16_RespondRoutesByRegistration ==
    /\ (ActionRan("call") \/ (lastOp.op = "respond" /\ lastOp.result = "ok")) =>
          /\ Cardinality(ResponseCalls) = 1
          /\ \A i \in ResponseCalls :
                /\ trace[i].conn = lastOp.conn
                /\ trace[i].call = IF hashtable_has(clients, lastOp.conn)
                                   THEN "send_client" ELSE "respond"
    /\ lastOp.op = "respond" =>
          /\ lastOp.result = "EINVAL" <=>
                (lastOp.conn = NullContext.client \/ lastOp.index = NullBuffer.index)
          /\ lastOp.result = "EINVAL" => trace = <<>>
          /\ lastOp.result \in {"ok", "EINVAL"}

C16_Witness ==
    /\ lastOp.op = "respond"
    /\ lastOp.result = "EINVAL"
    /\ hashtable_has(clients, lastOp.conn)
    /\ lastOp.index = NullBuffer.index
    /\ trace = <<>>

\* the calls of the link's two receive operations in a trace
Receives(calls) == {i \in DOMAIN calls : calls[i].call \in {"recv_client", "recv_packet"}}

\* in single-threaded mode no message waits anywhere between two steps
C17_NothingPending ==
    ~MultiThreaded =>
        /\ queue = <<>>
        /\ \A t \in Workers : wpc[t] = "idle" /\ wmsg[t] = NoMessage
        /\ arena = {}
\* a step of single-threaded mode that receives a message is also the step
\* that runs server_invoke_action for it, after the receive and to its end
C17_ReceiveStepInvokes ==
    (~MultiThreaded /\ received' = received + 1) =>
        /\ lastOp'.op \in Invocations
        /\ lastOp'.result \in {"hit", "miss"}
        /\ lastOp'.conn \in {entry.handle, PeerConn}
        /\ lastOp'.id = FirstMessageId + received
        /\ Receives(trace') = {1}
        /\ lastOp'.result = "hit" =>
              /\ trace'[2].call = "invoke"
              /\ trace'[2].id = lastOp'.id
              /\ trace'[2].conn = lastOp'.conn
        /\ lastOp'.result = "miss" => trace'[2].call = "event_error"
\* and no action runs in a step that receives nothing
C17_InvokesOnlyOnReceive ==
    (~MultiThreaded /\ lastOp'.op \in Invocations) =>
        received' = received + 1

\* C17: in single-threaded mode the action of each received message is
\* invoked, and has returned, within the step that received it: the
\* messages of a client are acted on in the order of their receipt, and the
\* static receive buffer is handed to the next receive only when no message
\* is pending.
C17_SingleThreadedInOrder ==
    /\ []C17_NothingPending
    /\ [][C17_ReceiveStepInvokes /\ C17_InvokesOnlyOnReceive]_vars

C17_Witness ==
    /\ ~MultiThreaded
    /\ server.initialized = 1
    /\ received = MaxRecv
    /\ lastOp.op = "call"
    /\ lastOp.result = "hit"
    /\ lastOp.id = FirstMessageId + 1
    /\ lastOp.conn \in StreamConns
    /\ Receives(trace) = {1}
    /\ CallsNamed("invoke") = {2}

\* the ids of the messages in the worker pool's queue, in queue order
QueuedIds == [i \in DOMAIN queue |-> ParseHeader(queue[i]).id]
\* the messages that are queued or that a worker holds
Pending == {queue[i] : i \in DOMAIN queue} \cup {wmsg[t] : t \in BusyWorkers}

\* what is dispatched and not yet cleaned up: queued in the order of
\* receipt, no message twice, every message in a block of its own
C18_QueueInv ==
    MultiThreaded =>
        /\ \A i, j \in DOMAIN queue : i < j => QueuedIds[i] < QueuedIds[j]
        /\ \A i, j \in DOMAIN queue : i # j => queue[i].block # queue[j].block
        /\ \A m, n \in Pending : m # n =>
              /\ m.block # n.block
              /\ ParseHeader(m).id # ParseHeader(n).id
        /\ \A m \in Pending : m.block \in Blocks
        /\ Cardinality(Pending) = Len(queue) + Cardinality(BusyWorkers)
\* a receive appends the received message, in a block no pending message
\* holds, behind the messages queued before it; no other step adds to the
\* queue or reorders it
C18_EnqueueStep ==
    MultiThreaded =>
        /\ received' = received + 1 =>
              /\ Len(queue') = Len(queue) + 1
              /\ SubSeq(queue', 1, Len(queue)) = queue
              /\ ParseHeader(queue'[Len(queue')]).id = FirstMessageId + received
              /\ queue'[Len(queue')].client \in {entry.handle, PeerConn}
              /\ queue'[Len(queue')].block \in Blocks \ OwnedBlocks
              /\ wmsg' = wmsg
        /\ received' = received =>
              \/ queue' = queue
              \/ queue # <<>> /\ queue' = Tail(queue)

\* C18: in multi-threaded mode every received message is appended to the
\* worker pool's queue once, in the step that received it and behind the
\* messages received before it, so that the messages of a client are queued
\* in the order of their receipt; each is in an arena block that no queued
\* or popped message holds.
C18_MultiThreadedEnqueueInOrder ==
    /\ []C18_QueueInv
    /\ [][C18_EnqueueStep]_vars

C18_Witness ==
    /\ MultiThreaded
    /\ Len(queue) = 2
    /\ queue[1].client = queue[2].client
    /\ queue[1].client \in StreamConns
    /\ QueuedIds = <<FirstMessageId, FirstMessageId + 1>>
    /\ queue[1].block # queue[2].block

\* a control-protocol request of `conn` as the invocations receive it
ControlMessage(conn, action, protocol) ==
    RecvMessage(conn, IF conn = PeerConn THEN <<AddressWord>> ELSE <<>>, FirstMessageId,
                ControlProtocol, action, protocol, StaticBlock)
\* subscribe(p) and unsubscribe(p) run for `conn` on the world `w`; nothing
\* runs in a process that has faulted
SubscribeOn(w, conn, p, createOk, ub) ==
    IF w.crashed THEN w
    ELSE gracht_control_subscribe_invocation(w, ControlMessage(conn, "subscribe", p), p,
                                             createOk, ub)
UnsubscribeOn(w, conn, p) ==
    IF w.crashed THEN w
    ELSE gracht_control_unsubscribe_invocation(w, ControlMessage(conn, "unsubscribe", p), p)
\* what the claim compares: the registry with the bitmaps of its records,
\* the callbacks fired, and whether the process still runs
IsCallback(call) == call.call \in {"clientConnected", "clientDisconnected"}
Observed(w) ==
    [clients |-> w.clients, fired |-> SelectSeq(w.calls, IsCallback), crashed |-> w.crashed]

\* C19: on a running server, for every handle and every protocol id p
\* (0xFF included), subscribe(p) run twice leaves the registry, the bitmaps
\* and the callbacks fired as subscribe(p) run once leaves them, and so does
\* unsubscribe(p) run twice.
C19_SubscribeTwiceIsOnce ==
    Running =>
        \A conn \in Conns, p \in ProtocolIds :
            /\ \A createOk \in BOOLEAN, ub \in Faults :
                  LET once == SubscribeOn(World, conn, p, createOk, ub)
                  IN  Observed(SubscribeOn(once, conn, p, createOk, ub)) = Observed(once)
            /\ LET once == UnsubscribeOn(World, conn, p)
               IN  Observed(UnsubscribeOn(once, conn, p)) = Observed(once)

\* C20: protocol id 0xFF is not usable as the id of an ordinary protocol:
\* no message whose protocol is 0xFF has an action invoked, whatever was
\* registered, and a broadcast on protocol 0xFF is sent to no client (in
\* particular not to the clients whose subscription bit 255 is set).
C20_ReservedIdNotOrdinary ==
    /\ (lastOp.op = "call" /\ lastOp.protocol = ALL_PROTOCOLS) =>
          /\ lastOp.result = "miss"
          /\ CallsNamed("invoke") = {}
    /\ (lastOp.op = "broadcast" /\ lastOp.protocol = ALL_PROTOCOLS) =>
          CallsNamed("send_client") = {}

\* C21: a broadcast calls send_client once on every record of the registry
\* whose subscription bit of the message's protocol is set and on no other,
\* whichever of these calls fail, and returns success.
C21_BroadcastSurvivesSendFailure ==
    lastOp.op = "broadcast" =>
        /\ lastOp.result = "ok"
        /\ \A c \in DOMAIN clients :
              Cardinality(Calls("send_client", c)) =
                  IF BitOf(clients[c], lastOp.protocol) THEN 1 ELSE 0
        /\ \A i \in DOMAIN trace :
              trace[i].call = "send_client" /\ trace[i].conn \in DOMAIN clients

C21_Witness ==
    /\ lastOp.op = "broadcast"
    /\ lastOp.result = "ok"
    /\ Len(trace) = 2
    /\ trace[1].status = "failed"
    /\ trace[2].call = "send_client"
    /\ trace[2].conn # trace[1].conn

\* positions of the event-loop thread inside the loop of main_loop
InLoop(p) == p \in {"wait", "accept", "drain_client", "drain_dgram"}
\* what the last step ran was a failure inside handle_event: a failed
\* accept, a receive error, a message with no action, a send that failed
HandleEventFailure ==
    \/ lastOp.op = "accept" /\ lastOp.result = "failed"
    \/ lastOp.op \in {"recv_client", "recv_packet"} /\ lastOp.result \in ReceiveErrors
    \/ lastOp.op \in {"call", "subscribe", "unsubscribe"} /\ lastOp.result = "miss"
    \/ lastOp.op \in {"call", "subscribe", "unsubscribe"}
       /\ \E i \in DOMAIN trace : trace[i].status = "failed"

C22_LoopStep ==
    /\ (InLoop(pc) /\ HandleEventFailure') =>
          /\ InLoop(pc')
          /\ server' = server
    /\ (InLoop(pc) /\ ~InLoop(pc') /\ pc' # "crashed") =>
          /\ pc = "wait"
          /\ server.initialized = 0
          /\ lastOp'.op = "main_loop"

\* C22: a failed accept, a receive error, a message with no action or a
\* failed send inside handle_event leaves the event-loop thread inside the
\* loop of main_loop with the server unchanged, and the thread leaves the
\* loop only from its test, finding the initialized flag cleared.
C22_FailuresKeepLoopRunning == [][C22_LoopStep]_vars

C22_Witness ==
    /\ pc = "drain_client"
    /\ server.initialized = 1
    /\ lastOp.op = "call"
    /\ lastOp.result = "miss"
    /\ \E i \in DOMAIN trace : trace[i].call = "event_error" /\ trace[i].status = "failed"

\* the listen calls an initialize made, and the result of the one of a kind
Listens == CallsNamed("listen")
ListenCode(conn) ==
    IF Calls("listen", conn) = {} THEN "uncalled"
    ELSE trace[CHOOSE i \in Calls("listen", conn) : TRUE].code

\* C23: an initialize that reaches create_links succeeds when one listen
\* yields a handle and the other yields one too or fails with ENOTSUP; it
\* fails when both fail with ENOTSUP or when one fails with another error;
\* gracht_aio_add is called once for each handle a listen returned and for
\* nothing else.
C23_ListenUnsupportedTolerated ==
    (lastOp.op = "initialize" /\ lastOp.result \in {"ok", "links_failed"}) =>
        /\ lastOp.result = "ok" <=>
              /\ \A i \in Listens : trace[i].code \in {"none", "ENOTSUP"}
              /\ \E i \in Listens : trace[i].code = "none"
        /\ ListenCode(ListenConn) # "uncalled"
        /\ ListenCode(ListenConn) # "error" => ListenCode(DgramConn) # "uncalled"
        /\ \A c \in {ListenConn, DgramConn} :
              /\ Cardinality(Calls("aio_add", c)) = IF ListenCode(c) = "none" THEN 1 ELSE 0
              /\ ListenCode(c) = "none" => c \in aio
        /\ \A i \in CallsNamed("aio_add") : trace[i].conn \in {ListenConn, DgramConn}
        /\ CONN_INVALID \notin aio

C23_Witness ==
    /\ lastOp.op = "initialize"
    /\ lastOp.result = "ok"
    /\ ListenCode(ListenConn) = "ENOTSUP"
    /\ ListenCode(DgramConn) = "none"
    /\ aio = {DgramConn}
    /\ server.listen_handle = CONN_INVALID

\* C24: the link's send fails with E2BIG, and asks nothing of the socket,
\* for a message whose header length is above GRACHT_MAX_MESSAGE_SIZE,
\* whatever the type of the link; a message of exactly that length or less
\* is never refused with E2BIG, and on a stream or packet link it is handed
\* to sendmsg and reported in progress when sendmsg sends all of it.
C24_SendLengthCheckedFirst ==
    link.op = "send" =>
        /\ link.out.length > GRACHT_MAX_MESSAGE_SIZE =>
              /\ link.status = "ERROR"
              /\ link.errno = "E2BIG"
              /\ link.reads = <<>>
              /\ link.moved = 0
        /\ link.out.length <= GRACHT_MAX_MESSAGE_SIZE => link.errno # "E2BIG"
        /\ (link.out.length <= GRACHT_MAX_MESSAGE_SIZE /\ link.type # "other") =>
              /\ Len(link.reads) = 1
              /\ link.reads[1].call = "sendmsg"
              /\ link.reads[1].got = link.out.length => link.status = "INPROGRESS"

C24_Witness ==
    /\ link.type = "stream"
    /\ link.op = "send"
    /\ link.status = "INPROGRESS"
    /\ link.out.length = GRACHT_MAX_MESSAGE_SIZE
    /\ link.moved = GRACHT_MAX_MESSAGE_SIZE
    /\ Len(link.stream) = 1

\* what recvmsg returned to the last datagram receive
ReceivedBytes == link.reads[1].got

\* C25: a datagram receive whose recvmsg returns fewer bytes than the fixed
\* header, zero included, fails with EPIPE and does not set *messageOut;
\* one whose recvmsg fails (returns a negative count) fails as well and
\* does not set *messageOut.
C25_ShortDatagramRejected ==
    (link.op = "recv_packet" /\ ReceivedBytes < MESSAGE_SIZE) =>
        /\ link.status = "failed"
        /\ ~link.delivered
        /\ ReceivedBytes >= 0 => link.errno = "EPIPE"

\* the stream is at the header of a message that was sent whole
AtWholeMessage(l) == AtHeader(l) /\ Head(l.stream).bytes = Head(l.stream).length

C26_ReceiveStep ==
    (link'.op = "recv_stream" /\ AtWholeMessage(link)) =>
        /\ link'.status = "ok" =>
              /\ link'.moved = Head(link.stream).length
              /\ link'.stream = Tail(link.stream)
              /\ link'.offset = 0
        /\ (\E i \in DOMAIN link'.reads : link'.reads[i].got # link'.reads[i].want) =>
              link'.status = "failed"

\* C26: a stream receive that starts at the header of a message sent whole
\* and succeeds has read exactly `length` bytes, so that the stream is then
\* at the header of the next message, whatever param_in and param_out are;
\* a receive one of whose reads comes back short fails.
C26_StreamReceiveConsumesLength == [][C26_ReceiveStep]_vars

\* the step is an iteration of the drain loop of handle_async_event: it
\* starts with the link's recv_client on the loop's `entry`
DrainReceive ==
    /\ pc = "drain_client"
    /\ trace' # <<>>
    /\ trace'[1].call \in {"recv_client", "recv_client_freed", "recv_client_null"}
    /\ trace'[1].conn = entry.handle

\* C27: in single-threaded mode every iteration of the drain loop of
\* handle_async_event calls recv_client on a record that has not been
\* destroyed since the loop looked it up.
C27_NoReceiveOnDestroyedRecord ==
    [][(~MultiThreaded /\ DrainReceive) => ~entry.stale]_vars

\* C28: a step fires clientDisconnected only for a handle that has a record
\* in the client registry when the step begins, and for a stream handle only
\* when a clientConnected fired for it has not been answered by a
\* clientDisconnected yet; so the clientDisconnected callbacks of a handle
\* never outnumber its clientConnected callbacks.
C28_DisconnectedOnlyForRegistered ==
    [][\A i \in DOMAIN trace' :
          trace'[i].call = "clientDisconnected" =>
              /\ hashtable_has(clients, trace'[i].conn)
              /\ trace'[i].conn \in StreamConns => trace'[i].conn \in accepted]_vars

\* C29: whenever the event loop is between two events, the handles of
\* accepted clients registered with the readiness facility are the handles
\* of the stream clients in the client registry.
C29_ReadinessSetMatchesRegistry ==
    pc = "wait" => ClientHandles = DOMAIN clients \cap StreamConns

\* the protocol ids whose bit is 1 in a record's bitmap of 8 words of 32 bits
Bits(client) ==
    UNION {{w * SUB_BITS + b : b \in client.subscriptions[w]} : w \in 0..(SUB_WORDS - 1)}

C30_BitmapStep ==
    (lastOp'.op \in {"client_subscribe", "client_unsubscribe"}
     /\ lastOp'.protocol < ALL_PROTOCOLS) =>
        LET c == lastOp'.conn
            p == lastOp'.protocol
        IN  /\ Bits(clients'[c]) = IF lastOp'.op = "client_subscribe"
                                   THEN Bits(clients[c]) \cup {p}
                                   ELSE Bits(clients[c]) \ {p}
            /\ DOMAIN clients' = DOMAIN clients
            /\ \A d \in DOMAIN clients \ {c} : clients'[d] = clients[d]
            /\ {q \in 0..ALL_PROTOCOLS : client_is_subscribed(clients'[c], q)}
                  = Bits(clients'[c])

\* C30: client_subscribe(p) for p in 0..254 sets bit p of the record's bitmap
\* and client_unsubscribe(p) clears it; no other bit of the record and no
\* other record changes, and client_is_subscribed(q) then reports bit q for
\* every q in 0..255.
C30_SubscribeTouchesOneBit == [][C30_BitmapStep]_vars

C30_Witness ==
    /\ lastOp.op = "client_unsubscribe"
    /\ lastOp.protocol = 31
    /\ Bits(clients[lastOp.conn]) = (0..ALL_PROTOCOLS) \ {31}
    /\ Cardinality(DOMAIN clients) = 2

====
